---- MODULE Spec2Model ----
(***************************************************************************)
(* Model of the Sv2 server service of tower-stratum                        *)
(* (src/src/server/service/mod.rs): construction, the request dispatcher   *)
(* `call`, the SetupConnection negotiator, the client registry, and the    *)
(* tasks spawned by `start` (inactivity monitor, accept loop, per-client   *)
(* reader tasks).                                                          *)
(*                                                                         *)
(* Option<T> is a sequence of length at most one: None = <<>>,             *)
(* Some(x) = <<x>>.  Result<T, E> is a record with a boolean field ok.     *)
(***************************************************************************)
EXTENDS Integers, Sequences, FiniteSets, TLC

VARIABLES
    config,             \* Sv2ServerService.config
    mining_handler,     \* Sv2ServerService.mining_handler (type M and its observed calls)
    new_result,         \* what Sv2ServerService::new returned
    clients,            \* Sv2ServerService.clients: client_id -> client record
    io,                 \* the Sv2MessageIo of every accepted connection, by client_id
    client_id_generator,\* Sv2ServerService.client_id_generator (next id)
    cancellation_token, \* Sv2ServerService.cancellation_token (TRUE once cancelled)
    now,                \* wall clock, in seconds
    monitor,            \* the inactive-connection monitor task of start
    acceptor,           \* the new-client-connection task of start
    accepted,           \* the client ids the acceptor has assigned, in order
    reader,             \* the per-client message handler tasks of start
    last_call,          \* request and result of the latest finished dispatcher call
    calls,              \* SendMessagesToClient calls in flight (concurrent callers)
    sibling_client_service_io, \* Sv2ServerService.sibling_client_service_io
    start,              \* the position of the task running Sv2ServerService::start
    sibling_task        \* the sibling-request task of start

vars == <<config, mining_handler, new_result, clients, io, client_id_generator,
          cancellation_token, now, monitor, acceptor, accepted, reader,
          last_call, calls, sibling_client_service_io, start,
          sibling_task>>

---------------------------------------------------------------------------
(* Bounds of the model *)

MaxVersion == 2
MaxFlags == 3
MaxClients == 2
MaxTime == 2
MaxInactivityLimit == 1
MaxFrames == 2
MaxMessages == 2
MaxCalls == 2
MaxSiblingQueue == 1
MaxRequests == 2
MaxSiblingRequests == 2
MaxRecvErrors == 1

---------------------------------------------------------------------------
(* Values *)

None == <<>>
Some(x) == <<x>>

Min(a, b) == IF a < b THEN a ELSE b

Protocols == {"MiningProtocol", "JobDeclarationProtocol", "TemplateDistributionProtocol"}
Versions == 1..MaxVersion
Flags == 0..MaxFlags

\* a & !b on unsigned integers
RECURSIVE BitAndNot(_, _)
BitAndNot(a, b) ==
    IF a = 0 THEN 0
    ELSE (IF a % 2 = 1 /\ b % 2 = 0 THEN 1 ELSE 0) + 2 * BitAndNot(a \div 2, b \div 2)

Ok(response) == [ok |-> TRUE, response |-> response]
Err(error) == [ok |-> FALSE, error |-> error]

\* ResponseFromSv2Server
ResponseOk == [kind |-> "Ok"]
TriggerNewRequest(req) == [kind |-> "TriggerNewRequest", req |-> req]

\* RequestToSv2Server
IncomingMessage(message, client_id) ==
    [kind |-> "IncomingMessage", message |-> message, client_id |-> client_id]
MiningTrigger(trigger) == [kind |-> "MiningTrigger", trigger |-> trigger]
SendRequestToSiblingClientService(req) ==
    [kind |-> "SendRequestToSiblingClientService", req |-> req]
SendMessagesToClients(messages_to_clients) ==
    [kind |-> "SendMessagesToClients", messages_to_clients |-> messages_to_clients]
MultipleRequests(reqs) == [kind |-> "MultipleRequests", reqs |-> reqs]
SendMessagesToClient(client_id, messages) ==
    [kind |-> "SendMessagesToClient", client_id |-> client_id, messages |-> messages]

\* AnyMessage::Common
SetupConnection(req) == [class |-> "Common", type |-> "SetupConnection", body |-> req]
SetupConnectionSuccess(used_version, flags) ==
    [class |-> "Common", type |-> "SetupConnectionSuccess",
     used_version |-> used_version, flags |-> flags]
SetupConnectionError(flags, error_code) ==
    [class |-> "Common", type |-> "SetupConnectionError",
     flags |-> flags, error_code |-> error_code]

\* The SetupConnection messages a peer can send
SetupConnections ==
    [protocol : Protocols, min_version : Versions, max_version : Versions,
     flags : Flags, endpoint_host : {""}, endpoint_port : {0}, vendor : {""},
     hardware_version : {""}, firmware : {""}, device_id : {""}]

\* the sibling-request task before start has spawned it
sibling_unspawned == [pc |-> "unspawned", req |-> None, recv_errors |-> 0]

---------------------------------------------------------------------------
(* Configuration and construction *)

ProtocolConfigs == {None} \cup {Some([supported_flags |-> f]) : f \in Flags}

\* Sv2ServerServiceConfig (the TCP listener parameters are left to the transport)
ServerConfigs ==
    [min_supported_version : Versions, max_supported_version : Versions,
     inactivity_limit : 0..MaxInactivityLimit,
     mining_config : ProtocolConfigs, job_declaration_config : ProtocolConfigs,
     template_distribution_config : ProtocolConfigs]

protocol_config(cfg, protocol) ==
    CASE protocol = "MiningProtocol" -> cfg.mining_config
      [] protocol = "JobDeclarationProtocol" -> cfg.job_declaration_config
      [] protocol = "TemplateDistributionProtocol" -> cfg.template_distribution_config

\* Sv2ServerServiceConfig::supported_protocols: the protocols whose config is present
supported_protocols(cfg) == {p \in Protocols : protocol_config(cfg, p) # None}

\* The handler type M: NullSv2MiningServerHandler or an implementation of
\* Sv2MiningServerHandler, with the value its setup_connection_success_flags
\* returns and the calls the service has made on it so far.
\* `response` is what its handle_* and trigger methods answer, `ready` what
\* its poll_ready answers.  The methods of the null handler are unimplemented
\* (as those of NullSv2TemplateDistributionClientHandler): calling one panics.
NullSv2MiningServerHandler ==
    [null |-> TRUE, success_flags |-> 0, log |-> <<>>,
     response |-> Err("panic"), ready |-> "Ready(Ok)"]
MiningServerHandlers ==
    {NullSv2MiningServerHandler}
        \cup {[null |-> FALSE, success_flags |-> f, log |-> <<>>,
               response |-> Ok(ResponseOk), ready |-> "Ready(Ok)"] : f \in {0, MaxFlags}}

has_null_handler(handler, protocol) ==
    IF protocol = "MiningProtocol" THEN handler.null ELSE FALSE

NullHandlerForSupportedProtocol(protocol) ==
    Err([kind |-> "NullHandlerForSupportedProtocol", protocol |-> protocol])
NonNullHandlerForUnsupportedProtocol(protocol) ==
    Err([kind |-> "NonNullHandlerForUnsupportedProtocol", protocol |-> protocol])

\* (mutant) only the supported-but-null direction is checked
validate_protocol_handlers_one_way(cfg, handler) ==
    IF "MiningProtocol" \in supported_protocols(cfg) /\ has_null_handler(handler, "MiningProtocol")
    THEN NullHandlerForSupportedProtocol("MiningProtocol")
    ELSE Ok("unit")

validate_protocol_handlers(cfg, handler) ==
    LET is_null_mining_handler == has_null_handler(handler, "MiningProtocol") IN
    IF "MiningProtocol" \in supported_protocols(cfg)
    THEN IF is_null_mining_handler
         THEN NullHandlerForSupportedProtocol("MiningProtocol")
         ELSE Ok("unit")
    ELSE IF ~is_null_mining_handler
         THEN NonNullHandlerForUnsupportedProtocol("MiningProtocol")
         ELSE Ok("unit")

\* Sv2ServerService::_new: the service exists iff validation passed
new(cfg, handler) ==
    LET v == validate_protocol_handlers(cfg, handler) IN
    IF v.ok THEN Ok("Sv2ServerService") ELSE v

---------------------------------------------------------------------------
(* The SetupConnection negotiator *)

\* (mutant) the version is negotiated against the wrong end of the server's range
used_version_of_min(cfg, req) == Min(req.max_version, cfg.min_supported_version)

\* (mutant) the error code of another check is reused
unsupported_protocol_error_code_reused ==
    SetupConnectionError(0, "protocol-version-mismatch")

\* (mutant) the low-side comparison is off by one
version_mismatch_off_by_one(cfg, req) ==
    \/ req.max_version <= cfg.min_supported_version
    \/ req.min_version > cfg.max_supported_version

\* (mutant) the whole of req.flags is reported instead of the unsupported part
unsupported_flags_unmasked(cfg, req) ==
    IF BitAndNot(req.flags, protocol_config(cfg, req.protocol)[1].supported_flags) # 0
    THEN req.flags ELSE 0

protocol_supported(cfg, req) == req.protocol \in supported_protocols(cfg)

version_mismatch(cfg, req) ==
    \/ req.max_version < cfg.min_supported_version
    \/ req.min_version > cfg.max_supported_version

used_version(cfg, req) == Min(req.max_version, cfg.max_supported_version)

\* .expect("... config must be Some"): the protocol passed the check of step 1
supported_flags(cfg, protocol) == protocol_config(cfg, protocol)[1].supported_flags

unsupported_flags(cfg, req) == BitAndNot(req.flags, supported_flags(cfg, req.protocol))

\* Sv2ConnectionClient built from the request
connection_details(req) ==
    [protocol |-> req.protocol, min_version |-> req.min_version,
     max_version |-> req.max_version, flags |-> req.flags,
     endpoint_host |-> req.endpoint_host, endpoint_port |-> req.endpoint_port,
     vendor |-> req.vendor, hardware_version |-> req.hardware_version,
     firmware |-> req.firmware, device_id |-> req.device_id]

\* mining_handler.add_client(client_id, flags)
add_client(handler, client_id, flags) ==
    [handler EXCEPT !.log = Append(@,
        [method |-> "add_client", client_id |-> client_id, flags |-> flags])]

\* mining_handler.remove_client(client_id)
handler_remove_client(handler, client_id) ==
    [handler EXCEPT !.log = Append(@,
        [method |-> "remove_client", client_id |-> client_id])]

reply(client_id, message) ==
    Ok(TriggerNewRequest(SendMessagesToClient(client_id, <<message>>)))

unsupported_protocol_error == SetupConnectionError(0, "unsupported-protocol")

version_mismatch_error == SetupConnectionError(0, "protocol-version-mismatch")

unsupported_flags_error(cfg, req) ==
    SetupConnectionError(unsupported_flags(cfg, req), "unsupported-feature-flags")

\* (mutant) the version check comes before the protocol check
handle_setup_connection_version_first(sv, cfg, req, client_id) ==
    IF version_mismatch(cfg, req)
    THEN [sv |-> sv,
          result |-> reply(client_id, version_mismatch_error)]
    ELSE IF ~protocol_supported(cfg, req)
    THEN [sv |-> sv,
          result |-> reply(client_id, unsupported_protocol_error)]
    ELSE IF unsupported_flags(cfg, req) # 0
    THEN [sv |-> IF ~has_null_handler(sv.mining_handler, "MiningProtocol")
                 THEN [sv EXCEPT !.mining_handler = add_client(@, client_id, req.flags)]
                 ELSE sv,
          result |-> reply(client_id, unsupported_flags_error(cfg, req))]
    ELSE IF client_id \notin DOMAIN sv.clients
    THEN [sv |-> sv, result |-> Err("IdNotFound")]
    ELSE LET sv1 == [sv EXCEPT !.clients[client_id].connection =
                                    Some(connection_details(req)),
                               !.clients[client_id].writes = @ + 1]
             sv2 == IF req.protocol = "MiningProtocol"
                    THEN [sv1 EXCEPT !.mining_handler = add_client(@, client_id, req.flags)]
                    ELSE sv1
             setup_connection_success_flags ==
                 IF req.protocol = "MiningProtocol"
                 THEN sv.mining_handler.success_flags
                 ELSE 0
         IN [sv |-> sv2,
             result |-> reply(client_id,
                              SetupConnectionSuccess(used_version(cfg, req),
                                                     setup_connection_success_flags))]

\* (mutant) the handler is told of the client before the record is looked up
handle_setup_connection_add_client_first(sv, cfg, req, client_id) ==
    IF ~protocol_supported(cfg, req)
    THEN [sv |-> sv,
          result |-> reply(client_id, unsupported_protocol_error)]
    ELSE IF version_mismatch(cfg, req)
    THEN [sv |-> sv,
          result |-> reply(client_id, version_mismatch_error)]
    ELSE IF unsupported_flags(cfg, req) # 0
    THEN [sv |-> IF ~has_null_handler(sv.mining_handler, "MiningProtocol")
                 THEN [sv EXCEPT !.mining_handler = add_client(@, client_id, req.flags)]
                 ELSE sv,
          result |-> reply(client_id, unsupported_flags_error(cfg, req))]
    ELSE IF client_id \notin DOMAIN sv.clients
    THEN [sv |-> IF req.protocol = "MiningProtocol"
                 THEN [sv EXCEPT !.mining_handler = add_client(@, client_id, req.flags)]
                 ELSE sv,
          result |-> Err("IdNotFound")]
    ELSE LET sv1 == [sv EXCEPT !.clients[client_id].connection =
                                    Some(connection_details(req)),
                               !.clients[client_id].writes = @ + 1]
             sv2 == IF req.protocol = "MiningProtocol"
                    THEN [sv1 EXCEPT !.mining_handler = add_client(@, client_id, req.flags)]
                    ELSE sv1
             setup_connection_success_flags ==
                 IF req.protocol = "MiningProtocol"
                 THEN sv.mining_handler.success_flags
                 ELSE 0
         IN [sv |-> sv2,
             result |-> reply(client_id,
                              SetupConnectionSuccess(used_version(cfg, req),
                                                     setup_connection_success_flags))]

\* The service state a dispatcher call reads and writes:
\* sv = [clients, io, mining_handler]
handle_setup_connection(sv, cfg, req, client_id) ==
    IF ~protocol_supported(cfg, req)
    THEN [sv |-> sv,
          result |-> reply(client_id, unsupported_protocol_error)]
    ELSE IF version_mismatch(cfg, req)
    THEN [sv |-> sv,
          result |-> reply(client_id, version_mismatch_error)]
    ELSE IF unsupported_flags(cfg, req) # 0
    THEN [sv |-> IF ~has_null_handler(sv.mining_handler, "MiningProtocol")
                 THEN [sv EXCEPT !.mining_handler = add_client(@, client_id, req.flags)]
                 ELSE sv,
          result |-> reply(client_id, unsupported_flags_error(cfg, req))]
    ELSE IF client_id \notin DOMAIN sv.clients
    THEN [sv |-> sv, result |-> Err("IdNotFound")]
    ELSE LET sv1 == [sv EXCEPT !.clients[client_id].connection =
                                    Some(connection_details(req)),
                               !.clients[client_id].writes = @ + 1]
             sv2 == IF req.protocol = "MiningProtocol"
                    THEN [sv1 EXCEPT !.mining_handler = add_client(@, client_id, req.flags)]
                    ELSE sv1
             setup_connection_success_flags ==
                 IF req.protocol = "MiningProtocol"
                 THEN sv.mining_handler.success_flags
                 ELSE 0
         IN [sv |-> sv2,
             result |-> reply(client_id,
                              SetupConnectionSuccess(used_version(cfg, req),
                                                     setup_connection_success_flags))]

---------------------------------------------------------------------------
(* Sv2MessageIo: the framed channel pair of one connection.  closed is the *)
(* state of the channels (closed by shutdown or by the peer going away),   *)
(* rx holds the frames received from the peer and not yet read, tx the     *)
(* frames send_message has accepted, in order.                             *)

new_io == [closed |-> FALSE, shutdowns |-> 0, rx |-> <<>>, tx |-> <<>>, sent |-> 0]

\* io.send_message(message): fails once the channel is closed
send_message(sv, client_id, message) ==
    IF sv.io[client_id].closed
    THEN [sv |-> sv, result |-> Err("SendError")]
    ELSE [sv |-> [sv EXCEPT !.io[client_id].tx = Append(@, message)],
          result |-> Ok("unit")]

\* io.shutdown()
shutdown(ios, client_id) ==
    [ios EXCEPT ![client_id].closed = TRUE, ![client_id].shutdowns = @ + 1]

---------------------------------------------------------------------------
(* The request dispatcher: Service::call *)

\* (mutant) a record is created with connection details already present
new_client_with_details ==
    [connection |-> Some(connection_details(
         [protocol |-> "MiningProtocol", min_version |-> 1, max_version |-> 1,
          flags |-> 0, endpoint_host |-> "", endpoint_port |-> 0, vendor |-> "",
          hardware_version |-> "", firmware |-> "", device_id |-> ""])),
     last_message_time |-> now, writes |-> 0]

\* Sv2ServerServiceClient::new(io)
new_client == [connection |-> None, last_message_time |-> now, writes |-> 0]

\* (mutant) the timestamp is left alone
update_client_message_time_skipped(sv, client_id) == sv

update_client_message_time(sv, client_id) ==
    IF client_id \in DOMAIN sv.clients
    THEN [sv EXCEPT !.clients[client_id].last_message_time = now]
    ELSE sv

MiningRequestTypes ==
    {"OpenStandardMiningChannel", "OpenExtendedMiningChannel", "UpdateChannel",
     "SubmitSharesStandard", "SubmitSharesExtended", "SetCustomMiningJob", "CloseChannel"}
MiningResponseTypes ==
    {"NewExtendedMiningJob", "NewMiningJob", "SetNewPrevHash",
     "OpenExtendedMiningChannelSuccess", "OpenMiningChannelError",
     "OpenStandardMiningChannelSuccess", "SetCustomMiningJobError",
     "SetCustomMiningJobSuccess", "SetExtranoncePrefix", "SetGroupChannel",
     "SetTarget", "SubmitSharesError", "SubmitSharesSuccess", "UpdateChannelError"}

\* (mutant) both SubmitShares variants go to the handler of the standard one
handler_method_shares_standard(type) ==
    CASE type = "OpenStandardMiningChannel" -> "handle_open_standard_mining_channel"
      [] type = "OpenExtendedMiningChannel" -> "handle_open_extended_mining_channel"
      [] type = "UpdateChannel" -> "handle_update_channel"
      [] type = "SubmitSharesStandard" -> "handle_submit_shares_standard"
      [] type = "SubmitSharesExtended" -> "handle_submit_shares_standard"
      [] type = "SetCustomMiningJob" -> "handle_set_custom_mining_job"
      [] type = "CloseChannel" -> "handle_close_channel"

\* the method of Sv2MiningServerHandler each arm of the match calls
handler_method(type) ==
    CASE type = "OpenStandardMiningChannel" -> "handle_open_standard_mining_channel"
      [] type = "OpenExtendedMiningChannel" -> "handle_open_extended_mining_channel"
      [] type = "UpdateChannel" -> "handle_update_channel"
      [] type = "SubmitSharesStandard" -> "handle_submit_shares_standard"
      [] type = "SubmitSharesExtended" -> "handle_submit_shares_extended"
      [] type = "SetCustomMiningJob" -> "handle_set_custom_mining_job"
      [] type = "CloseChannel" -> "handle_close_channel"

\* mining_handler.handle_<message>(client_id, message)
handle_mining_message(handler, client_id, message) ==
    [handler EXCEPT !.log = Append(@,
        [method |-> handler_method(message.type), client_id |-> client_id])]

\* the loop over messages of the SendMessagesToClient arm
RECURSIVE send_messages(_, _, _)
send_messages(sv, client_id, messages) ==
    IF messages = <<>>
    THEN [sv |-> sv, result |-> Ok(ResponseOk)]
    ELSE LET r == send_message(sv, client_id, Head(messages)) IN
         IF r.result.ok
         THEN send_messages(r.sv, client_id, Tail(messages))
         ELSE [sv |-> r.sv, result |-> Err("FailedToSendResponseToClient")]

send_messages_to_client(sv, request) ==
    IF request.client_id \in DOMAIN sv.clients
    THEN send_messages(sv, request.client_id, request.messages)
    ELSE [sv |-> sv, result |-> Err("FailedToSendResponseToClient")]

\* (mutant) the null-handler check comes after the unsupported variants
incoming_message_variant_first(sv, cfg, request) ==
    LET message == request.message IN
    CASE message.class = "Common" ->
            IF message.type = "SetupConnection"
            THEN IF request.client_id # None
                 THEN handle_setup_connection(sv, cfg, message.body, request.client_id[1])
                 ELSE [sv |-> sv, result |-> Err("IdMustBeSome")]
            ELSE [sv |-> sv, result |-> Err("UnsupportedMessage")]
      [] message.class = "Mining" ->
            IF message.type \notin MiningRequestTypes
            THEN [sv |-> sv, result |-> Err("UnsupportedMessage")]
            ELSE IF has_null_handler(sv.mining_handler, "MiningProtocol")
            THEN [sv |-> sv, result |-> Err("UnsupportedProtocol(MiningProtocol)")]
            ELSE IF request.client_id # None
            THEN [sv |-> [sv EXCEPT !.mining_handler =
                             handle_mining_message(@, request.client_id[1], message)],
                  result |-> sv.mining_handler.response]
            ELSE [sv |-> sv, result |-> Err("panic")]
      [] OTHER -> [sv |-> sv, result |-> Err("panic")]

\* the IncomingMessage arm
incoming_message(sv, cfg, request) ==
    LET message == request.message IN
    CASE message.class = "Common" ->
            IF message.type = "SetupConnection"
            THEN IF request.client_id # None
                 THEN handle_setup_connection(sv, cfg, message.body, request.client_id[1])
                 ELSE [sv |-> sv, result |-> Err("IdMustBeSome")]
            ELSE [sv |-> sv, result |-> Err("UnsupportedMessage")]
      [] message.class = "Mining" ->
            IF has_null_handler(sv.mining_handler, "MiningProtocol")
            THEN [sv |-> sv, result |-> Err("UnsupportedProtocol(MiningProtocol)")]
            ELSE IF message.type \in MiningRequestTypes
            THEN IF request.client_id # None
                 THEN [sv |-> [sv EXCEPT !.mining_handler =
                                  handle_mining_message(@, request.client_id[1], message)],
                       result |-> sv.mining_handler.response]
                 ELSE [sv |-> sv, result |-> Err("panic")]
            ELSE [sv |-> sv, result |-> Err("UnsupportedMessage")]
      [] OTHER -> [sv |-> sv, result |-> Err("panic")]

\* (mutant) an entry that fails does not stop the later entries
RECURSIVE send_messages_to_clients_continue(_, _)
send_messages_to_clients_continue(sv, messages_to_clients) ==
    IF messages_to_clients = <<>>
    THEN [sv |-> sv, result |-> Ok(ResponseOk)]
    ELSE LET r == send_messages_to_client(sv, Head(messages_to_clients))
             rest == send_messages_to_clients_continue(r.sv, Tail(messages_to_clients))
         IN IF r.result.ok THEN rest ELSE [sv |-> rest.sv, result |-> r.result]

\* the SendMessagesToClients arm
RECURSIVE send_messages_to_clients(_, _)
send_messages_to_clients(sv, messages_to_clients) ==
    IF messages_to_clients = <<>>
    THEN [sv |-> sv, result |-> Ok(ResponseOk)]
    ELSE LET r == send_messages_to_client(sv, Head(messages_to_clients)) IN
         IF r.result.ok
         THEN send_messages_to_clients(r.sv, Tail(messages_to_clients))
         ELSE r

\* the MiningTrigger arm: start, on_new_template, on_set_new_prev_hash
mining_trigger(sv, trigger) ==
    [sv |-> [sv EXCEPT !.mining_handler.log = Append(@, [method |-> trigger])],
     result |-> sv.mining_handler.response]

\* Sv2SiblingClientServiceIo: a bounded channel to the sibling client service
\* queue: the requests sent to the sibling; rx: the requests received from it
\* and not yet taken by the sibling-request task; sent: how many it has sent
new_sibling_io == [queue |-> <<>>, closed |-> FALSE, rx |-> <<>>, sent |-> 0]
sibling_send(sibling_io, req) ==
    IF sibling_io.closed \/ Len(sibling_io.queue) >= MaxSiblingQueue
    THEN [sibling_io |-> sibling_io, result |-> Err("SendError")]
    ELSE [sibling_io |-> [sibling_io EXCEPT !.queue = Append(@, req)],
          result |-> Ok("unit")]

\* (mutant) the result of the enqueue is ignored
send_request_to_sibling_unchecked(sv, req) ==
    IF sv.sibling_client_service_io # None
    THEN [sv |-> [sv EXCEPT !.sibling_client_service_io =
                     Some(sibling_send(@[1], req).sibling_io)],
          result |-> Ok(ResponseOk)]
    ELSE [sv |-> sv, result |-> Err("NoSiblingClientService")]

\* the SendRequestToSiblingClientService arm
send_request_to_sibling(sv, req) ==
    IF sv.sibling_client_service_io # None
    THEN LET r == sibling_send(sv.sibling_client_service_io[1], req) IN
         IF r.result.ok
         THEN [sv |-> [sv EXCEPT !.sibling_client_service_io = Some(r.sibling_io)],
               result |-> Ok(ResponseOk)]
         ELSE [sv |-> sv,
               result |-> Err("FailedToSendRequestToSiblingClientService")]
    ELSE [sv |-> sv, result |-> Err("NoSiblingClientService")]

RECURSIVE call(_, _, _)

\* (mutant) a failing request does not stop the sequence
RECURSIVE multiple_requests_continue(_, _, _)
multiple_requests_continue(sv, cfg, reqs) ==
    IF reqs = <<>>
    THEN [sv |-> sv, result |-> Ok(ResponseOk)]
    ELSE LET r == call(sv, cfg, Head(reqs))
             rest == multiple_requests_continue(r.sv, cfg, Tail(reqs))
         IN IF r.result.ok THEN rest ELSE [sv |-> rest.sv, result |-> r.result]

\* the MultipleRequests arm
RECURSIVE multiple_requests(_, _, _)
multiple_requests(sv, cfg, reqs) ==
    IF reqs = <<>>
    THEN [sv |-> sv, result |-> Ok(ResponseOk)]
    ELSE LET r == call(sv, cfg, Head(reqs)) IN
         IF r.result.ok
         THEN multiple_requests(r.sv, cfg, Tail(reqs))
         ELSE r

\* the response of the arm matching the request
response(sv, cfg, request) ==
    CASE request.kind = "IncomingMessage" -> incoming_message(sv, cfg, request)
      [] request.kind = "MiningTrigger" -> mining_trigger(sv, request.trigger)
      [] request.kind = "SendRequestToSiblingClientService" ->
             send_request_to_sibling(sv, request.req)
      [] request.kind = "SendMessagesToClient" -> send_messages_to_client(sv, request)
      [] request.kind = "SendMessagesToClients" ->
             send_messages_to_clients(sv, request.messages_to_clients)
      [] request.kind = "MultipleRequests" -> multiple_requests(sv, cfg, request.reqs)

\* (mutant) the response is returned as it is, a TriggerNewRequest included
call_unchained(sv, cfg, request) ==
    LET sv0 == IF request.kind = "IncomingMessage" /\ request.client_id # None
               THEN update_client_message_time(sv, request.client_id[1])
               ELSE sv
    IN response(sv0, cfg, request)

call(sv, cfg, request) ==
    LET sv0 == IF request.kind = "IncomingMessage" /\ request.client_id # None
               THEN update_client_message_time(sv, request.client_id[1])
               ELSE sv
        r == response(sv0, cfg, request)
    IN  IF r.result.ok /\ r.result.response.kind = "TriggerNewRequest"
        THEN call(r.sv, cfg, r.result.response.req)
        ELSE r

\* the service state the dispatcher works on
service ==
    [clients |-> clients, io |-> io, mining_handler |-> mining_handler,
     sibling_client_service_io |-> sibling_client_service_io]

---------------------------------------------------------------------------
(* SpecNew: Sv2ServerService::new applied to every configuration and       *)
(* handler type within the bounds.                                         *)

InitNew ==
    /\ config \in ServerConfigs
    /\ mining_handler \in MiningServerHandlers
    /\ new_result = None
    /\ now = 0
    /\ clients = <<>>
    /\ io = <<>>
    /\ client_id_generator = 1
    /\ cancellation_token = FALSE
    /\ monitor = [pc |-> "unspawned", clients_to_remove |-> {}, client_entries |-> {}]
    /\ acceptor = "unspawned"
    /\ accepted = <<>>
    /\ reader = <<>>
    /\ last_call = None
    /\ calls = <<>>
    /\ sibling_client_service_io = None
    /\ start = [pc |-> "running", result |-> None]
    /\ sibling_task = sibling_unspawned

New ==
    /\ new_result = None
    /\ new_result' = Some(new(config, mining_handler))
    /\ UNCHANGED <<config, mining_handler, clients, io, client_id_generator,
                   cancellation_token, now, monitor, acceptor, accepted, reader,
                   last_call, calls,
                   sibling_client_service_io, start,
          sibling_task>>

NextNew == New

SpecNew == InitNew /\ [][NextNew]_vars

---------------------------------------------------------------------------
(* SpecSetup: the dispatcher applied to the first SetupConnection of a     *)
(* connection.  Init draws the inputs: a configuration and handler that    *)
(* passed construction, and whether the channel of client 1 is still open  *)
(* (the peer may have gone away after sending the frame).                  *)

InitSetup ==
    /\ config \in {c \in ServerConfigs : c.inactivity_limit = MaxInactivityLimit}
    /\ mining_handler \in {h \in MiningServerHandlers : new(config, h).ok}
    /\ new_result = Some(new(config, mining_handler))
    /\ now = 0
    /\ clients = [id \in {1} |-> new_client]
    /\ io \in {[id \in {1} |-> [new_io EXCEPT !.closed = b]] : b \in BOOLEAN}
    /\ client_id_generator = 2
    /\ cancellation_token = FALSE
    /\ monitor = [pc |-> "sleep", clients_to_remove |-> {}, client_entries |-> {}]
    /\ acceptor = "running"
    /\ accepted = <<1>>
    /\ reader = [id \in {1} |-> "loop"]
    /\ last_call = None
    /\ calls = <<>>
    /\ sibling_client_service_io = None
    /\ start = [pc |-> "running", result |-> None]
    /\ sibling_task = sibling_unspawned

\* one frame of client 1 dispatched: service.call(IncomingMessage{message, Some(1)})
DispatchSetupConnection(req) ==
    /\ last_call = None
    /\ LET request == IncomingMessage(SetupConnection(req), Some(1))
           r == call(service, config, request)
       IN /\ clients' = r.sv.clients
          /\ io' = r.sv.io
          /\ mining_handler' = r.sv.mining_handler
          /\ last_call' = Some([request |-> request, result |-> r.result])
    /\ UNCHANGED <<config, new_result, client_id_generator, cancellation_token,
                   now, monitor, acceptor, accepted, reader, calls,
                   sibling_client_service_io, start,
          sibling_task>>

NextSetup == \E req \in SetupConnections : DispatchSetupConnection(req)

SpecSetup == InitSetup /\ [][NextSetup]_vars

---------------------------------------------------------------------------
(* Claims on the SetupConnection negotiator (SpecSetup).  They are stated  *)
(* on the finished call: the request it was given, the frames the client's *)
(* channel accepted, the client record and the handler's log.  The         *)
(* conditions are written out from the configuration, not through the      *)
(* negotiator's operators.                                                 *)

Bits(n) == {i \in 0..7 : (n \div (2 ^ i)) % 2 = 1}

SetupDone == last_call # None
SetupReq == last_call[1].request.message.body
SetupResult == last_call[1].result
\* the client's record is in the registry and its channel is open
Reachable1 == 1 \in DOMAIN clients /\ ~io[1].closed

ReqProtocolConfig ==
    CASE SetupReq.protocol = "MiningProtocol" -> config.mining_config
      [] SetupReq.protocol = "JobDeclarationProtocol" -> config.job_declaration_config
      [] SetupReq.protocol = "TemplateDistributionProtocol" ->
             config.template_distribution_config
ReqProtocolOk == ReqProtocolConfig # None
ReqVersionOk ==
    /\ SetupReq.max_version >= config.min_supported_version
    /\ SetupReq.min_version <= config.max_supported_version
ReqUnsupportedBits == Bits(SetupReq.flags) \ Bits(ReqProtocolConfig[1].supported_flags)
ReqFlagsOk == ReqUnsupportedBits = {}

AddClientCalls == {i \in DOMAIN mining_handler.log : mining_handler.log[i].method = "add_client"}

\* C1: a SetupConnection from a registered client that passes the protocol,
\* version and flag checks writes connection details equal to the request's
\* fields on the client's record and sends the client exactly one
\* SetupConnectionSuccess with used_version = min(req.max_version,
\* config.max_supported_version) and flags = the handler's
\* setup_connection_success_flags (0 for Job Declaration and Template Distribution).
C1_SetupSuccess ==
    (SetupDone /\ Reachable1 /\ ReqProtocolOk /\ ReqVersionOk /\ ReqFlagsOk) =>
        /\ clients[1].connection =
             << [protocol |-> SetupReq.protocol, min_version |-> SetupReq.min_version,
                 max_version |-> SetupReq.max_version, flags |-> SetupReq.flags,
                 endpoint_host |-> SetupReq.endpoint_host,
                 endpoint_port |-> SetupReq.endpoint_port, vendor |-> SetupReq.vendor,
                 hardware_version |-> SetupReq.hardware_version,
                 firmware |-> SetupReq.firmware, device_id |-> SetupReq.device_id] >>
        /\ Len(io[1].tx) = 1
        /\ io[1].tx[1].type = "SetupConnectionSuccess"
        /\ io[1].tx[1].used_version =
             (IF SetupReq.max_version <= config.max_supported_version
              THEN SetupReq.max_version ELSE config.max_supported_version)
        /\ io[1].tx[1].flags =
             (IF SetupReq.protocol = "MiningProtocol"
              THEN mining_handler.success_flags ELSE 0)
        /\ SetupResult.ok

\* C1 witness: a Mining request with differing versions was answered with a
\* success carrying the handler's non-zero flags
C1_Witness ==
    /\ SetupDone /\ Reachable1 /\ ReqProtocolOk /\ ReqVersionOk /\ ReqFlagsOk
    /\ SetupReq.protocol = "MiningProtocol"
    /\ SetupReq.min_version < SetupReq.max_version
    /\ SetupReq.max_version > config.max_supported_version
    /\ mining_handler.success_flags # 0
    /\ io[1].tx # <<>> /\ io[1].tx[1].type = "SetupConnectionSuccess"

\* C2: a SetupConnection whose protocol is not in the configured supported set
\* is answered with exactly one SetupConnectionError with flags 0 and error_code
\* "unsupported-protocol"; the connection details stay absent and add_client is
\* called on no handler.
C2_UnsupportedProtocol ==
    (SetupDone /\ Reachable1 /\ ~ReqProtocolOk) =>
        /\ io[1].tx = << [class |-> "Common", type |-> "SetupConnectionError",
                          flags |-> 0, error_code |-> "unsupported-protocol"] >>
        /\ clients[1].connection = None
        /\ AddClientCalls = {}

\* C2 witness: an unsupported protocol was requested with versions and flags the
\* server would not accept either, on a service with a non-null mining handler
C2_Witness ==
    /\ SetupDone /\ Reachable1 /\ ~ReqProtocolOk
    /\ ~mining_handler.null
    /\ SetupReq.flags # 0
    /\ io[1].tx # <<>> /\ io[1].tx[1].type = "SetupConnectionError"

VersionMismatchReply ==
    io[1].tx = << [class |-> "Common", type |-> "SetupConnectionError",
                   flags |-> 0, error_code |-> "protocol-version-mismatch"] >>
SuccessReply == Len(io[1].tx) = 1 /\ io[1].tx[1].type = "SetupConnectionSuccess"

\* C3 (as claimed): with a supported protocol the answer is the
\* "protocol-version-mismatch" error iff req.max_version < min_supported_version
\* or req.min_version > max_supported_version, and a request with req.max_version
\* = config.min_supported_version (and supported flags) is accepted with
\* used_version = config.min_supported_version.
C3_AsClaimed ==
    (SetupDone /\ Reachable1 /\ ReqProtocolOk) =>
        /\ VersionMismatchReply <=>
             \/ SetupReq.max_version < config.min_supported_version
             \/ SetupReq.min_version > config.max_supported_version
        /\ (SetupReq.max_version = config.min_supported_version /\ ReqFlagsOk) =>
             /\ SuccessReply
             /\ io[1].tx[1].used_version = config.min_supported_version

\* C3 (amended): with a supported protocol the answer is the
\* "protocol-version-mismatch" error with flags 0 iff req.max_version <
\* min_supported_version or req.min_version > max_supported_version; a request
\* with req.max_version = config.min_supported_version and supported flags is
\* accepted exactly when req.min_version <= config.max_supported_version, and
\* then used_version = min(config.min_supported_version,
\* config.max_supported_version), which is config.min_supported_version
\* whenever min_supported_version <= max_supported_version.
C3_VersionCheck ==
    (SetupDone /\ Reachable1 /\ ReqProtocolOk) =>
        /\ VersionMismatchReply <=>
             \/ SetupReq.max_version < config.min_supported_version
             \/ SetupReq.min_version > config.max_supported_version
        /\ (SetupReq.max_version = config.min_supported_version /\ ReqFlagsOk) =>
             /\ SuccessReply <=> SetupReq.min_version <= config.max_supported_version
             /\ SuccessReply =>
                  /\ io[1].tx[1].used_version \in
                        {config.min_supported_version, config.max_supported_version}
                  /\ io[1].tx[1].used_version <= config.min_supported_version
                  /\ io[1].tx[1].used_version <= config.max_supported_version
             /\ (SuccessReply /\ config.min_supported_version <= config.max_supported_version) =>
                  io[1].tx[1].used_version = config.min_supported_version

\* C3 witness: a request whose max_version is the server's minimum, below the
\* server's maximum, was accepted
C3_Witness ==
    /\ SetupDone /\ Reachable1 /\ ReqProtocolOk
    /\ SetupReq.max_version = config.min_supported_version
    /\ config.min_supported_version < config.max_supported_version
    /\ SuccessReply
    /\ io[1].tx[1].used_version = config.min_supported_version

\* C4: after the protocol and version checks, with unsupported = req.flags AND
\* NOT supported_flags of the requested protocol: if unsupported is non-zero the
\* answer is SetupConnectionError with flags = unsupported and error_code
\* "unsupported-feature-flags" and no connection details are written (when no
\* requested flag is supported the error carries req.flags); if unsupported is
\* zero the request succeeds.
C4_FlagCheck ==
    (SetupDone /\ Reachable1 /\ ReqProtocolOk /\ ReqVersionOk) =>
        /\ ReqUnsupportedBits # {} =>
             /\ Len(io[1].tx) = 1
             /\ io[1].tx[1].type = "SetupConnectionError"
             /\ io[1].tx[1].error_code = "unsupported-feature-flags"
             /\ Bits(io[1].tx[1].flags) = ReqUnsupportedBits
             /\ clients[1].connection = None
             /\ (Bits(SetupReq.flags) \cap Bits(ReqProtocolConfig[1].supported_flags) = {}
                   => io[1].tx[1].flags = SetupReq.flags)
        /\ ReqUnsupportedBits = {} =>
             /\ SuccessReply
             /\ SetupResult.ok
             /\ clients[1].connection # None

\* C4 witness: some requested flags are supported and some are not, and the
\* error names only the unsupported ones
C4_Witness ==
    /\ SetupDone /\ Reachable1 /\ ReqProtocolOk /\ ReqVersionOk
    /\ ReqUnsupportedBits # {}
    /\ Bits(SetupReq.flags) \cap Bits(ReqProtocolConfig[1].supported_flags) # {}
    /\ io[1].tx # <<>> /\ io[1].tx[1].type = "SetupConnectionError"
    /\ io[1].tx[1].flags # SetupReq.flags

---------------------------------------------------------------------------
(* Spec: the tasks spawned by Sv2ServerService::start -- the new-client    *)
(* connection task, one message handler task per client and the inactive-  *)
(* connection monitor -- interleaved with the peers, the clock and the     *)
(* owner of the cancellation token.                                        *)

\* DashMap::insert / DashMap::remove on a registry keyed by client id
insert(map, key, value) ==
    [k \in DOMAIN map \cup {key} |-> IF k = key THEN value ELSE map[k]]
remove(map, key) == [k \in DOMAIN map \ {key} |-> map[k]]

\* (mutant) every client counts as inactive
is_inactive_always(client, inactivity_limit) ==
    now >= client.last_message_time

\* Sv2ServerServiceClient::is_inactive
is_inactive(client, inactivity_limit) ==
    now - client.last_message_time > inactivity_limit

\* ClientIdGenerator::next
next(generator) == [client_id |-> generator, generator |-> generator + 1]

\* (mutant) the IO is shut down but the record stays in the registry
remove_client_keeps_record(sv, client_id) ==
    [sv EXCEPT
        !.io = IF client_id \in DOMAIN sv.clients
               THEN shutdown(sv.io, client_id)
               ELSE sv.io]

remove_client(sv, client_id) ==
    [sv EXCEPT
        !.clients = remove(sv.clients, client_id),
        !.io = IF client_id \in DOMAIN sv.clients
               THEN shutdown(sv.io, client_id)
               ELSE sv.io,
        !.mining_handler =
            IF has_null_handler(sv.mining_handler, "MiningProtocol")
            THEN sv.mining_handler
            ELSE handler_remove_client(sv.mining_handler, client_id)]

\* the configurations of the lifecycle: Job Declaration always supported,
\* Mining supported or not, every inactivity limit within the bound
LifeConfigs ==
    {c \in ServerConfigs :
        /\ c.min_supported_version = 1 /\ c.max_supported_version = MaxVersion
        /\ c.mining_config \in {None, Some([supported_flags |-> 0])}
        /\ c.job_declaration_config = Some([supported_flags |-> 0])
        /\ c.template_distribution_config = None}

LifeSetupConnection(protocol) ==
    SetupConnection([protocol |-> protocol, min_version |-> 1,
                     max_version |-> MaxVersion, flags |-> 0,
                     endpoint_host |-> "", endpoint_port |-> 0, vendor |-> "",
                     hardware_version |-> "", firmware |-> "", device_id |-> ""])

\* the frames a peer may send: a SetupConnection for Mining where the server
\* supports it, for Job Declaration otherwise
LifeFrames ==
    {LifeSetupConnection(IF "MiningProtocol" \in supported_protocols(config)
                         THEN "MiningProtocol"
                         ELSE "JobDeclarationProtocol")}

Init ==
    /\ config \in LifeConfigs
    /\ mining_handler \in {h \in MiningServerHandlers :
                              h.success_flags = 0 /\ new(config, h).ok}
    /\ new_result = Some(new(config, mining_handler))
    /\ now = 0
    /\ clients = <<>>
    /\ io = <<>>
    /\ client_id_generator = 1
    /\ cancellation_token = FALSE
    /\ monitor = [pc |-> "sleep", clients_to_remove |-> {}, client_entries |-> {}]
    /\ acceptor = "running"
    /\ accepted = <<>>
    /\ reader = <<>>
    /\ last_call = None
    /\ calls = <<>>
    /\ sibling_client_service_io = None
    /\ start = [pc |-> "running", result |-> None]
    /\ sibling_task = sibling_unspawned

\* (mutant) the id is derived from the size of the registry
accept_client_id_from_count == Cardinality(DOMAIN clients) + 1

\* let client_id = client_id_generator.next();
accept_client_id == next(client_id_generator).client_id

\* the new-client task receives a connection from the TCP server
Accept ==
    /\ acceptor = "running"
    /\ Len(accepted) < MaxClients
    /\ LET client_id == accept_client_id IN
         /\ clients' = insert(clients, client_id, new_client)
         /\ io' = insert(io, client_id, new_io)
         /\ reader' = insert(reader, client_id, "loop")
         /\ accepted' = Append(accepted, client_id)
    /\ client_id_generator' = next(client_id_generator).generator
    /\ UNCHANGED <<config, mining_handler, new_result, cancellation_token, now,
                   monitor, acceptor, last_call, calls,
                   sibling_client_service_io, start,
          sibling_task>>

AcceptorCancelled ==
    /\ acceptor = "running"
    /\ cancellation_token
    /\ acceptor' = "ended"
    /\ UNCHANGED <<config, mining_handler, new_result, clients, io,
                   client_id_generator, cancellation_token, now, monitor,
                   accepted, reader, last_call, calls,
                   sibling_client_service_io, start,
          sibling_task>>

\* the owner of the token cancels it
Cancel ==
    /\ ~cancellation_token
    /\ cancellation_token' = TRUE
    /\ UNCHANGED <<config, mining_handler, new_result, clients, io,
                   client_id_generator, now, monitor, acceptor, accepted,
                   reader, last_call, calls,
                   sibling_client_service_io, start,
          sibling_task>>

\* the number of frames the peers have written so far
RECURSIVE frames_sent(_)
frames_sent(ios) ==
    IF DOMAIN ios = {} THEN 0
    ELSE LET k == CHOOSE k \in DOMAIN ios : TRUE
         IN ios[k].sent + frames_sent(remove(ios, k))

\* a peer writes a frame to its connection
PeerSend(client_id, frame) ==
    /\ client_id \in DOMAIN io
    /\ ~io[client_id].closed
    /\ frames_sent(io) < MaxFrames
    /\ io' = [io EXCEPT ![client_id].rx = Append(@, frame),
                        ![client_id].sent = @ + 1]
    /\ UNCHANGED <<config, mining_handler, new_result, clients,
                   client_id_generator, cancellation_token, now, monitor,
                   acceptor, accepted, reader, last_call, calls,
                   sibling_client_service_io, start,
          sibling_task>>

\* a peer closes its connection
PeerClose(client_id) ==
    /\ client_id \in DOMAIN io
    /\ ~io[client_id].closed
    /\ io' = [io EXCEPT ![client_id].closed = TRUE]
    /\ UNCHANGED <<config, mining_handler, new_result, clients,
                   client_id_generator, cancellation_token, now, monitor,
                   acceptor, accepted, reader, last_call, calls,
                   sibling_client_service_io, start,
          sibling_task>>

\* message handler task: io.recv_message() yields Ok(message), the request is
\* dispatched; an error of the call is logged and the message ignored
ReaderRecv(client_id) ==
    /\ client_id \in DOMAIN reader
    /\ reader[client_id] = "loop"
    /\ io[client_id].rx # <<>>
    /\ LET message == Head(io[client_id].rx)
           sv == [service EXCEPT !.io[client_id].rx = Tail(@)]
           request == IncomingMessage(message, Some(client_id))
           r == call(sv, config, request)
       IN /\ clients' = r.sv.clients
          /\ io' = r.sv.io
          /\ mining_handler' = r.sv.mining_handler
          /\ reader' = [reader EXCEPT ![client_id] =
                           IF r.result = Err("panic") THEN "panicked" ELSE "loop"]
    /\ UNCHANGED <<config, new_result, client_id_generator, cancellation_token,
                   now, monitor, acceptor, accepted, last_call, calls,
                   sibling_client_service_io, start,
          sibling_task>>

\* message handler task: io.recv_message() yields Err, the loop is left
ReaderRecvErr(client_id) ==
    /\ client_id \in DOMAIN reader
    /\ reader[client_id] = "loop"
    /\ io[client_id].closed
    /\ reader' = [reader EXCEPT ![client_id] = "remove"]
    /\ UNCHANGED <<config, mining_handler, new_result, clients, io,
                   client_id_generator, cancellation_token, now, monitor,
                   acceptor, accepted, last_call, calls,
                   sibling_client_service_io, start,
          sibling_task>>

\* message handler task: the cancellation branch of the select
ReaderCancelled(client_id) ==
    /\ client_id \in DOMAIN reader
    /\ reader[client_id] = "loop"
    /\ cancellation_token
    /\ reader' = [reader EXCEPT ![client_id] = "remove"]
    /\ UNCHANGED <<config, mining_handler, new_result, clients, io,
                   client_id_generator, cancellation_token, now, monitor,
                   acceptor, accepted, last_call, calls,
                   sibling_client_service_io, start,
          sibling_task>>

\* message handler task: service.remove_client(client_id) after the loop
ReaderRemoveClient(client_id) ==
    /\ client_id \in DOMAIN reader
    /\ reader[client_id] = "remove"
    /\ LET sv == remove_client(service, client_id)
       IN /\ clients' = sv.clients
          /\ io' = sv.io
          /\ mining_handler' = sv.mining_handler
    /\ reader' = [reader EXCEPT ![client_id] = "ended"]
    /\ UNCHANGED <<config, new_result, client_id_generator, cancellation_token,
                   now, monitor, acceptor, accepted, last_call, calls,
                   sibling_client_service_io, start,
          sibling_task>>

\* one second passes; the monitor's sleep, if it is sleeping, elapses.  The
\* monitor finishes the work of a wake-up before the next second passes.
Tick ==
    /\ now < MaxTime
    /\ monitor.pc \in {"sleep", "ended"}
    /\ now' = now + 1
    /\ monitor' = IF monitor.pc = "sleep"
                  THEN [monitor EXCEPT !.pc = "scan"]
                  ELSE monitor
    /\ UNCHANGED <<config, mining_handler, new_result, clients, io,
                   client_id_generator, cancellation_token, acceptor, accepted,
                   reader, last_call, calls,
                   sibling_client_service_io, start,
          sibling_task>>

\* (mutant) the scan skips clients that never completed SetupConnection
scan_negotiated_only ==
    {client_id \in DOMAIN clients :
        /\ clients[client_id].connection # None
        /\ is_inactive(clients[client_id], config.inactivity_limit)}

\* monitor: identify inactive clients
scan ==
    {client_id \in DOMAIN clients :
        is_inactive(clients[client_id], config.inactivity_limit)}

MonitorScan ==
    /\ monitor.pc = "scan"
    /\ monitor' = [monitor EXCEPT
                      !.clients_to_remove = scan,
                      !.pc = IF scan = {} THEN "sleep" ELSE "remove"]
    /\ UNCHANGED <<config, mining_handler, new_result, clients, io,
                   client_id_generator, cancellation_token, now, acceptor,
                   accepted, reader, last_call, calls,
                   sibling_client_service_io, start,
          sibling_task>>

\* monitor: this.remove_client(client_id) for one collected client
MonitorRemoveClient(client_id) ==
    /\ monitor.pc = "remove"
    /\ client_id \in monitor.clients_to_remove
    /\ LET sv == remove_client(service, client_id)
           rest == monitor.clients_to_remove \ {client_id}
       IN /\ clients' = sv.clients
          /\ io' = sv.io
          /\ mining_handler' = sv.mining_handler
          /\ monitor' = [monitor EXCEPT
                            !.clients_to_remove = rest,
                            !.pc = IF rest = {} THEN "sleep" ELSE "remove"]
    /\ UNCHANGED <<config, new_result, client_id_generator, cancellation_token,
                   now, acceptor, accepted, reader, last_call, calls,
                   sibling_client_service_io, start,
          sibling_task>>

\* monitor: the cancellation branch; remove_all_clients snapshots the registry
MonitorCancelled ==
    /\ monitor.pc \in {"sleep", "scan"}
    /\ cancellation_token
    /\ monitor' = [monitor EXCEPT !.pc = "remove_all",
                                  !.client_entries = DOMAIN clients]
    /\ UNCHANGED <<config, mining_handler, new_result, clients, io,
                   client_id_generator, cancellation_token, now, acceptor,
                   accepted, reader, last_call, calls,
                   sibling_client_service_io, start,
          sibling_task>>

\* remove_all_clients: one entry of the snapshot is shut down and reported
RemoveAllClientsEntry(client_id) ==
    /\ monitor.pc = "remove_all"
    /\ client_id \in monitor.client_entries
    /\ io' = shutdown(io, client_id)
    /\ mining_handler' =
          IF has_null_handler(mining_handler, "MiningProtocol")
          THEN mining_handler
          ELSE handler_remove_client(mining_handler, client_id)
    /\ monitor' = [monitor EXCEPT !.client_entries = @ \ {client_id}]
    /\ UNCHANGED <<config, new_result, clients, client_id_generator,
                   cancellation_token, now, acceptor, accepted, reader,
                   last_call, calls,
                   sibling_client_service_io, start,
          sibling_task>>

\* remove_all_clients: self.clients.clear(); the monitor task ends
RemoveAllClientsClear ==
    /\ monitor.pc = "remove_all"
    /\ monitor.client_entries = {}
    /\ clients' = <<>>
    /\ monitor' = [monitor EXCEPT !.pc = "ended"]
    /\ UNCHANGED <<config, mining_handler, new_result, io, client_id_generator,
                   cancellation_token, now, acceptor, accepted, reader,
                   last_call, calls,
                   sibling_client_service_io, start,
          sibling_task>>

Next ==
    \/ Accept
    \/ AcceptorCancelled
    \/ Cancel
    \/ \E client_id \in 1..MaxClients, frame \in LifeFrames :
          PeerSend(client_id, frame)
    \/ \E client_id \in 1..MaxClients : PeerClose(client_id)
    \/ \E client_id \in 1..MaxClients : ReaderRecv(client_id)
    \/ \E client_id \in 1..MaxClients : ReaderRecvErr(client_id)
    \/ \E client_id \in 1..MaxClients : ReaderCancelled(client_id)
    \/ \E client_id \in 1..MaxClients : ReaderRemoveClient(client_id)
    \/ Tick
    \/ MonitorScan
    \/ \E client_id \in 1..MaxClients : MonitorRemoveClient(client_id)
    \/ MonitorCancelled
    \/ \E client_id \in 1..MaxClients : RemoveAllClientsEntry(client_id)
    \/ RemoveAllClientsClear

Spec == Init /\ [][Next]_vars

\* the tokio runtime keeps running every message handler task: a task whose
\* recv_message has an error to return gets it, and a task that left its loop
\* goes on to remove_client
ReaderFairness ==
    \A client_id \in 1..MaxClients :
        /\ WF_vars(ReaderRecvErr(client_id))
        /\ WF_vars(ReaderRemoveClient(client_id))

\* SpecClose: connections are accepted, their peers send frames and close,
\* the monitor reaps; the token is not cancelled
NextClose ==
    \/ Accept
    \/ \E client_id \in 1..MaxClients, frame \in LifeFrames :
          PeerSend(client_id, frame)
    \/ \E client_id \in 1..MaxClients : PeerClose(client_id)
    \/ \E client_id \in 1..MaxClients : ReaderRecv(client_id)
    \/ \E client_id \in 1..MaxClients : ReaderRecvErr(client_id)
    \/ \E client_id \in 1..MaxClients : ReaderRemoveClient(client_id)
    \/ Tick
    \/ MonitorScan
    \/ \E client_id \in 1..MaxClients : MonitorRemoveClient(client_id)

SpecClose == Init /\ [][NextClose]_vars /\ ReaderFairness

---------------------------------------------------------------------------
(* SpecSend: SendMessagesToClient requests dispatched concurrently on      *)
(* clones of the service, one io.send_message per step, while peers close  *)
(* their connections and the message handler tasks remove their clients.   *)

\* the messages of the k-th request: distinct payloads, in list order
Messages(k, n) ==
    [i \in 1..n |-> [class |-> "Mining", type |-> "NewMiningJob", body |-> <<k, i>>]]

InitSend ==
    /\ config \in {c \in LifeConfigs :
                      c.mining_config = None /\ c.inactivity_limit = MaxInactivityLimit}
    /\ mining_handler = NullSv2MiningServerHandler
    /\ new_result = Some(new(config, mining_handler))
    /\ now = 0
    /\ clients = [client_id \in 1..MaxClients |-> new_client]
    /\ io = [client_id \in 1..MaxClients |-> new_io]
    /\ client_id_generator = MaxClients + 1
    /\ cancellation_token = FALSE
    /\ monitor = [pc |-> "sleep", clients_to_remove |-> {}, client_entries |-> {}]
    /\ acceptor = "running"
    /\ accepted = [k \in 1..MaxClients |-> k]
    /\ reader = [client_id \in 1..MaxClients |-> "loop"]
    /\ last_call = None
    /\ calls = <<>>
    /\ sibling_client_service_io = None
    /\ start = [pc |-> "running", result |-> None]
    /\ sibling_task = sibling_unspawned

\* call(SendMessagesToClient): the client's IO is looked up in the registry
SendStart(client_id, n) ==
    /\ Len(calls) < MaxCalls
    /\ LET messages == Messages(Len(calls) + 1, n)
           request == SendMessagesToClient(client_id, messages)
       IN calls' = Append(calls,
              IF client_id \in DOMAIN clients
              THEN [request |-> request, remaining |-> messages,
                    pc |-> "send", result |-> None]
              ELSE [request |-> request, remaining |-> messages,
                    pc |-> "done",
                    result |-> Some(Err("FailedToSendResponseToClient"))])
    /\ UNCHANGED <<config, mining_handler, new_result, clients, io,
                   client_id_generator, cancellation_token, now, monitor,
                   acceptor, accepted, reader, last_call,
                   sibling_client_service_io, start,
          sibling_task>>

\* (mutant) a failed send is skipped and the loop goes on
send_message_failed_continue(c) ==
    [c EXCEPT !.remaining = Tail(@)]

\* Err(_) => return Err(FailedToSendResponseToClient)
send_message_failed(c) ==
    [c EXCEPT !.pc = "done",
              !.result = Some(Err("FailedToSendResponseToClient"))]

\* one iteration of the loop: io.send_message(message).await
SendStep(k) ==
    /\ k \in DOMAIN calls
    /\ calls[k].pc = "send"
    /\ calls[k].remaining # <<>>
    /\ LET r == send_message(service, calls[k].request.client_id,
                             Head(calls[k].remaining))
       IN /\ io' = r.sv.io
          /\ calls' = [calls EXCEPT ![k] =
                          IF r.result.ok
                          THEN [@ EXCEPT !.remaining = Tail(@)]
                          ELSE send_message_failed(@)]
    /\ UNCHANGED <<config, mining_handler, new_result, clients,
                   client_id_generator, cancellation_token, now, monitor,
                   acceptor, accepted, reader, last_call,
                   sibling_client_service_io, start,
          sibling_task>>

\* the loop is over: return Ok(ResponseFromSv2Server::Ok)
SendReturn(k) ==
    /\ k \in DOMAIN calls
    /\ calls[k].pc = "send"
    /\ calls[k].remaining = <<>>
    /\ calls' = [calls EXCEPT ![k].pc = "done", ![k].result = Some(Ok(ResponseOk))]
    /\ UNCHANGED <<config, mining_handler, new_result, clients, io,
                   client_id_generator, cancellation_token, now, monitor,
                   acceptor, accepted, reader, last_call,
                   sibling_client_service_io, start,
          sibling_task>>

NextSend ==
    \/ \E client_id \in 1..MaxClients, n \in 1..MaxMessages : SendStart(client_id, n)
    \/ \E k \in 1..MaxCalls : SendStep(k)
    \/ \E k \in 1..MaxCalls : SendReturn(k)
    \/ \E client_id \in 1..MaxClients : PeerClose(client_id)
    \/ \E client_id \in 1..MaxClients : ReaderRecvErr(client_id)
    \/ \E client_id \in 1..MaxClients : ReaderRemoveClient(client_id)

SpecSend == InitSend /\ [][NextSend]_vars

---------------------------------------------------------------------------
(* SpecCall: one request of every variant dispatched by Service::call on a *)
(* service with one client in the registry (connection details absent), a  *)
(* second client already removed, and every kind of handler and sibling    *)
(* IO; and Service::poll_ready.                                            *)

\* the frames of the four message classes
CallMessages ==
    {LifeSetupConnection("MiningProtocol"),
     LifeSetupConnection("JobDeclarationProtocol"),
     [class |-> "Common", type |-> "ChannelEndpointChanged", body |-> 0],
     [class |-> "JobDeclaration", type |-> "AllocateMiningJobToken", body |-> 0],
     [class |-> "TemplateDistribution", type |-> "CoinbaseOutputConstraints", body |-> 0]}
        \cup {[class |-> "Mining", type |-> t, body |-> 0] :
                 t \in MiningRequestTypes \cup MiningResponseTypes}

MiningServerTriggers == {"start", "on_new_template", "on_set_new_prev_hash"}

\* a request forwarded to the sibling client service
SiblingRequest == [kind |-> "SendMessageToMiningServer"]

\* an outbound message
Outbound(n) == [class |-> "Mining", type |-> "NewMiningJob", body |-> n]

IncomingMessages ==
    {IncomingMessage(message, client_id) :
        message \in CallMessages, client_id \in {None, Some(1), Some(2)}}

SendRequests ==
    {SendMessagesToClient(client_id, messages) :
        client_id \in 1..MaxClients,
        messages \in {<<Outbound(1)>>, <<Outbound(1), Outbound(2)>>}}

\* the requests a MultipleRequests is composed of
SimpleRequests ==
    {IncomingMessage(LifeSetupConnection("JobDeclarationProtocol"), Some(1)),
     IncomingMessage([class |-> "Mining", type |-> "OpenStandardMiningChannel",
                      body |-> 0], Some(1)),
     IncomingMessage([class |-> "Common", type |-> "ChannelEndpointChanged",
                      body |-> 0], Some(1)),
     MiningTrigger("start"),
     SendRequestToSiblingClientService(SiblingRequest),
     SendMessagesToClient(1, <<Outbound(1)>>),
     SendMessagesToClient(2, <<Outbound(2)>>)}

RequestLists ==
    UNION {[1..n -> SimpleRequests] : n \in 0..MaxRequests}

\* the mining handlers of the dispatcher runs: every answer, every readiness
CallHandlers ==
    {[h EXCEPT !.ready = r] :
        h \in {NullSv2MiningServerHandler}, r \in {"Ready(Ok)", "Ready(Err)", "Pending"}}
    \cup
    {[null |-> FALSE, success_flags |-> 0, log |-> <<>>, response |-> a, ready |-> r] :
        a \in {Ok(ResponseOk), Err("MiningHandlerError"),
               Ok(TriggerNewRequest(SendMessagesToClient(1, <<Outbound(0)>>)))},
        r \in {"Ready(Ok)", "Ready(Err)", "Pending"}}

\* the sibling IO of new (None) and of new_with_sibling_io (Some): empty, full
\* or shut down
SiblingIos ==
    {None, Some(new_sibling_io),
     Some([new_sibling_io EXCEPT !.queue = [k \in 1..MaxSiblingQueue |-> SiblingRequest]]),
     Some([new_sibling_io EXCEPT !.closed = TRUE])}

InitCall ==
    /\ config \in {c \in LifeConfigs : c.inactivity_limit = MaxInactivityLimit}
    /\ mining_handler \in {h \in CallHandlers : new(config, h).ok}
    /\ new_result = Some(new(config, mining_handler))
    /\ now = 0
    /\ clients = [client_id \in {1} |-> new_client]
    /\ io \in {[client_id \in 1..MaxClients |->
                   IF client_id = 1
                   THEN [new_io EXCEPT !.closed = b]
                   ELSE [new_io EXCEPT !.closed = TRUE, !.shutdowns = 1]] :
               b \in BOOLEAN}
    /\ client_id_generator = MaxClients + 1
    /\ cancellation_token = FALSE
    /\ monitor = [pc |-> "sleep", clients_to_remove |-> {}, client_entries |-> {}]
    /\ acceptor = "running"
    /\ accepted = [k \in 1..MaxClients |-> k]
    /\ reader = [client_id \in 1..MaxClients |->
                    IF client_id = 1 THEN "loop" ELSE "ended"]
    /\ last_call = None
    /\ calls = <<>>
    /\ sibling_client_service_io \in SiblingIos
    /\ start = [pc |-> "running", result |-> None]
    /\ sibling_task = sibling_unspawned

\* service.call(request).await
Dispatch(request) ==
    /\ last_call = None
    /\ LET r == call(service, config, request)
       IN /\ clients' = r.sv.clients
          /\ io' = r.sv.io
          /\ mining_handler' = r.sv.mining_handler
          /\ sibling_client_service_io' = r.sv.sibling_client_service_io
          /\ last_call' = Some([request |-> request, result |-> r.result,
                                before |-> service])
    /\ UNCHANGED <<config, new_result, client_id_generator, cancellation_token,
                   now, monitor, acceptor, accepted, reader, calls, start,
                   sibling_task>>

DispatchIncomingMessage ==
    \E request \in IncomingMessages :
        /\ request.kind = "IncomingMessage"
        /\ Dispatch(request)
DispatchMiningTrigger ==
    \E trigger \in MiningServerTriggers :
        /\ trigger \in MiningServerTriggers
        /\ Dispatch(MiningTrigger(trigger))
DispatchSendRequestToSibling ==
    /\ SiblingRequest.kind = "SendMessageToMiningServer"
    /\ Dispatch(SendRequestToSiblingClientService(SiblingRequest))
DispatchSendMessagesToClient ==
    \E request \in SendRequests :
        /\ request.kind = "SendMessagesToClient"
        /\ Dispatch(request)
DispatchSendMessagesToClients ==
    \E list \in UNION {[1..n -> SendRequests] : n \in 0..MaxRequests} :
        /\ Len(list) <= MaxRequests
        /\ Dispatch(SendMessagesToClients(list))
DispatchMultipleRequests ==
    \E reqs \in RequestLists :
        /\ Len(reqs) <= MaxRequests
        /\ Dispatch(MultipleRequests(reqs))

\* (mutant) the mining handler is polled whatever its type
mining_poll_ready_unchecked(handler) ==
    [handler |-> [handler EXCEPT !.log = Append(@, [method |-> "poll_ready"])],
     poll |-> handler.ready]

\* poll_ready: the readiness of the mining handler
mining_poll_ready(handler) ==
    IF has_null_handler(handler, "MiningProtocol")
    THEN [handler |-> handler, poll |-> "Ready(Ok)"]
    ELSE [handler |-> [handler EXCEPT !.log = Append(@, [method |-> "poll_ready"])],
          poll |-> handler.ready]

\* poll_ready: the three subprotocol results combined
combine_poll_ready(mining, job_declaration, template_distribution) ==
    CASE mining = "Ready(Ok)" /\ job_declaration = "Ready(Ok)"
            /\ template_distribution = "Ready(Ok)" -> "Ready(Ok)"
      [] mining = "Ready(Err)" -> "Ready(Err)"
      [] job_declaration = "Ready(Err)" -> "Ready(Err)"
      [] template_distribution = "Ready(Err)" -> "Ready(Err)"
      [] OTHER -> "Pending"

poll_ready(handler) ==
    LET mining == mining_poll_ready(handler)
    IN [handler |-> mining.handler,
        poll |-> combine_poll_ready(mining.poll, "Ready(Ok)", "Ready(Ok)")]

\* Service::poll_ready on the service
PollReady ==
    /\ last_call = None
    /\ LET r == poll_ready(mining_handler)
       IN /\ mining_handler' = r.handler
          /\ last_call' = Some([request |-> [kind |-> "poll_ready"],
                                result |-> r.poll, before |-> service])
    /\ UNCHANGED <<config, new_result, clients, io, client_id_generator,
                   cancellation_token, now, monitor, acceptor, accepted, reader,
                   calls, sibling_client_service_io, start,
          sibling_task>>

NextCall ==
    \/ DispatchIncomingMessage
    \/ DispatchMiningTrigger
    \/ DispatchSendRequestToSibling
    \/ DispatchSendMessagesToClient
    \/ DispatchSendMessagesToClients
    \/ DispatchMultipleRequests
    \/ PollReady

SpecCall == InitCall /\ [][NextCall]_vars

---------------------------------------------------------------------------
(* SpecStart: Sv2ServerService::start from its first line to its return,   *)
(* with the tasks it spawns, the peers and the owner of the token.         *)

InitStart ==
    /\ config \in {c \in LifeConfigs : c.inactivity_limit = MaxInactivityLimit}
    /\ mining_handler \in {h \in CallHandlers : new(config, h).ok}
    /\ new_result = Some(new(config, mining_handler))
    /\ now = 0
    /\ clients = <<>>
    /\ io = <<>>
    /\ client_id_generator = 1
    /\ cancellation_token = FALSE
    /\ monitor = [pc |-> "unspawned", clients_to_remove |-> {}, client_entries |-> {}]
    /\ acceptor = "unspawned"
    /\ accepted = <<>>
    /\ reader = <<>>
    /\ last_call = None
    /\ calls = <<>>
    /\ sibling_client_service_io = None
    /\ start = [pc |-> "tcp", result |-> None]
    /\ sibling_task = sibling_unspawned

\* start_encrypted_tcp_server(...).await: the listener is set up, or not
StartTcpServer(ok) ==
    /\ start.pc = "tcp"
    /\ start' = IF ok
                THEN [start EXCEPT !.pc = "spawn"]
                ELSE [pc |-> "returned", result |-> Some(Err("TcpServerError"))]
    /\ UNCHANGED <<config, mining_handler, new_result, clients, io,
                   client_id_generator, cancellation_token, now, monitor,
                   acceptor, accepted, reader, last_call, calls,
                   sibling_client_service_io, sibling_task>>

\* the monitor task and the new-client task are spawned
StartSpawn ==
    /\ start.pc = "spawn"
    /\ monitor' = [monitor EXCEPT !.pc = "sleep"]
    /\ acceptor' = "running"
    /\ start' = [start EXCEPT !.pc =
                    IF has_null_handler(mining_handler, "MiningProtocol")
                    THEN "await" ELSE "ready"]
    /\ UNCHANGED <<config, mining_handler, new_result, clients, io,
                   client_id_generator, cancellation_token, now, accepted,
                   reader, last_call, calls, sibling_client_service_io,
                   sibling_task>>

\* self.ready().await.map_err(|_| ServiceNotReady)?
StartReady ==
    /\ start.pc = "ready"
    /\ LET r == poll_ready(mining_handler)
       IN /\ mining_handler' = r.handler
          /\ start' = CASE r.poll = "Ready(Ok)" -> [start EXCEPT !.pc = "trigger"]
                        [] r.poll = "Ready(Err)" ->
                              [pc |-> "returned", result |-> Some(Err("ServiceNotReady"))]
                        [] OTHER -> [start EXCEPT !.pc = "pending"]
    /\ UNCHANGED <<config, new_result, clients, io, client_id_generator,
                   cancellation_token, now, monitor, acceptor, accepted, reader,
                   last_call, calls, sibling_client_service_io, sibling_task>>

\* self.call(MiningTrigger(Start)).await
StartMiningHandler ==
    /\ start.pc = "trigger"
    /\ LET r == call(service, config, MiningTrigger("start"))
       IN /\ clients' = r.sv.clients
          /\ io' = r.sv.io
          /\ mining_handler' = r.sv.mining_handler
          /\ start' = IF r.result.ok
                      THEN [start EXCEPT !.pc = "await"]
                      ELSE [pc |-> "returned",
                            result |-> Some(Err("FailedToStartMiningHandler"))]
    /\ UNCHANGED <<config, new_result, client_id_generator, cancellation_token,
                   now, monitor, acceptor, accepted, reader, last_call, calls,
                   sibling_client_service_io, sibling_task>>

\* (mutant) start does not wait for the token
cancelled_not_awaited == TRUE

\* self.cancellation_token.cancelled().await
cancelled == cancellation_token

StartReturn ==
    /\ start.pc = "await"
    /\ cancelled
    /\ start' = [pc |-> "returned", result |-> Some(Ok("unit"))]
    /\ UNCHANGED <<config, mining_handler, new_result, clients, io,
                   client_id_generator, cancellation_token, now, monitor,
                   acceptor, accepted, reader, last_call, calls,
                   sibling_client_service_io, sibling_task>>

NextStart ==
    \/ \E ok \in BOOLEAN : StartTcpServer(ok)
    \/ StartSpawn
    \/ StartReady
    \/ StartMiningHandler
    \/ StartReturn
    \/ Cancel
    \/ Accept
    \/ AcceptorCancelled
    \/ \E client_id \in 1..MaxClients : PeerClose(client_id)
    \/ \E client_id \in 1..MaxClients : ReaderRecvErr(client_id)
    \/ \E client_id \in 1..MaxClients : ReaderCancelled(client_id)
    \/ \E client_id \in 1..MaxClients : ReaderRemoveClient(client_id)
    \/ MonitorCancelled
    \/ \E client_id \in 1..MaxClients : RemoveAllClientsEntry(client_id)
    \/ RemoveAllClientsClear

SpecStart == InitStart /\ [][NextStart]_vars

---------------------------------------------------------------------------
(* SpecReader: the message handler task of one connected client whose peer *)
(* sends frames of every message class.                                    *)

InitReader ==
    /\ config \in {c \in LifeConfigs : c.inactivity_limit = MaxInactivityLimit}
    /\ mining_handler \in {h \in MiningServerHandlers :
                              h.success_flags = 0 /\ new(config, h).ok}
    /\ new_result = Some(new(config, mining_handler))
    /\ now = 0
    /\ clients = [client_id \in {1} |-> new_client]
    /\ io = [client_id \in {1} |-> new_io]
    /\ client_id_generator = 2
    /\ cancellation_token = FALSE
    /\ monitor = [pc |-> "sleep", clients_to_remove |-> {}, client_entries |-> {}]
    /\ acceptor = "running"
    /\ accepted = <<1>>
    /\ reader = [client_id \in {1} |-> "loop"]
    /\ last_call = None
    /\ calls = <<>>
    /\ sibling_client_service_io = None
    /\ start = [pc |-> "running", result |-> None]
    /\ sibling_task = sibling_unspawned

NextReader ==
    \/ \E frame \in CallMessages : PeerSend(1, frame)
    \/ PeerClose(1)
    \/ ReaderRecv(1)
    \/ ReaderRecvErr(1)
    \/ ReaderRemoveClient(1)

SpecReader == InitReader /\ [][NextReader]_vars

---------------------------------------------------------------------------
(* SpecReap: the whole life of one connection -- its message handler task, *)
(* the inactive connection monitor, the clock and the cancellation token   *)
(* -- with a peer that sends accepted and rejected SetupConnections,       *)
(* unsupported messages and Mining requests.                               *)

ReapFrames ==
    {LifeSetupConnection(protocol) : protocol \in Protocols}
        \cup {[class |-> "Common", type |-> "ChannelEndpointChanged", body |-> 0],
              [class |-> "Mining", type |-> "OpenStandardMiningChannel", body |-> 0]}

InitReap ==
    /\ config \in LifeConfigs
    /\ mining_handler \in {h \in MiningServerHandlers :
                              h.success_flags = 0 /\ new(config, h).ok}
    /\ new_result = Some(new(config, mining_handler))
    /\ now = 0
    /\ clients = [client_id \in {1} |-> new_client]
    /\ io = [client_id \in {1} |-> new_io]
    /\ client_id_generator = 2
    /\ cancellation_token = FALSE
    /\ monitor = [pc |-> "sleep", clients_to_remove |-> {}, client_entries |-> {}]
    /\ acceptor = "running"
    /\ accepted = <<1>>
    /\ reader = [client_id \in {1} |-> "loop"]
    /\ last_call = None
    /\ calls = <<>>
    /\ sibling_client_service_io = None
    /\ start = [pc |-> "running", result |-> None]
    /\ sibling_task = sibling_unspawned

NextReap ==
    \/ \E frame \in ReapFrames : PeerSend(1, frame)
    \/ PeerClose(1)
    \/ ReaderRecv(1)
    \/ ReaderRecvErr(1)
    \/ ReaderCancelled(1)
    \/ ReaderRemoveClient(1)
    \/ Cancel
    \/ Tick
    \/ MonitorScan
    \/ MonitorRemoveClient(1)
    \/ MonitorCancelled
    \/ RemoveAllClientsEntry(1)
    \/ RemoveAllClientsClear

SpecReap == InitReap /\ [][NextReap]_vars

---------------------------------------------------------------------------
(* SpecRace: the life of one connection as in SpecReap, with the monitor's *)
(* remove_client in the two steps its code takes: the handler's            *)
(* remove_client is awaited, then the record is taken out of the registry  *)
(* and its IO shut down.  The message handler task of the client runs      *)
(* concurrently and may dispatch a frame between the two.                  *)

\* monitor: remove_client(client_id) is entered and the handler's
\* remove_client awaited; the id in hand is kept in client_entries
MonitorRemoveClientHandler(client_id) ==
    /\ monitor.pc = "remove"
    /\ client_id \in monitor.clients_to_remove
    /\ mining_handler' =
          IF has_null_handler(mining_handler, "MiningProtocol")
          THEN mining_handler
          ELSE handler_remove_client(mining_handler, client_id)
    /\ monitor' = [monitor EXCEPT
                      !.clients_to_remove = @ \ {client_id},
                      !.client_entries = {client_id},
                      !.pc = "remove_registry"]
    /\ UNCHANGED <<config, new_result, clients, io, client_id_generator,
                   cancellation_token, now, acceptor, accepted, reader,
                   last_call, calls, sibling_client_service_io, start,
                   sibling_task>>

\* monitor: self.clients.remove(&client_id) and client.io.shutdown()
MonitorRemoveClientRegistry(client_id) ==
    /\ monitor.pc = "remove_registry"
    /\ client_id \in monitor.client_entries
    /\ clients' = remove(clients, client_id)
    /\ io' = IF client_id \in DOMAIN clients THEN shutdown(io, client_id) ELSE io
    /\ monitor' = [monitor EXCEPT
                      !.client_entries = {},
                      !.pc = IF monitor.clients_to_remove = {}
                             THEN "sleep" ELSE "remove"]
    /\ UNCHANGED <<config, mining_handler, new_result, client_id_generator,
                   cancellation_token, now, acceptor, accepted, reader,
                   last_call, calls, sibling_client_service_io, start,
                   sibling_task>>

NextRace ==
    \/ \E frame \in ReapFrames : PeerSend(1, frame)
    \/ PeerClose(1)
    \/ ReaderRecv(1)
    \/ ReaderRecvErr(1)
    \/ ReaderCancelled(1)
    \/ ReaderRemoveClient(1)
    \/ Cancel
    \/ Tick
    \/ MonitorScan
    \/ MonitorRemoveClientHandler(1)
    \/ MonitorRemoveClientRegistry(1)
    \/ MonitorCancelled
    \/ RemoveAllClientsEntry(1)
    \/ RemoveAllClientsClear

SpecRace == InitReap /\ [][NextRace]_vars

---------------------------------------------------------------------------
(* SpecSerial: the message handler tasks of two connected clients, with    *)
(* the dispatch of a frame in two steps: service.call(request) is entered, *)
(* and its future completes.  Each peer numbers its frames.                *)

SerialFrames ==
    {[class |-> class_type[1], type |-> class_type[2], body |-> n] :
        class_type \in {<<"Mining", "OpenStandardMiningChannel">>,
                        <<"Common", "ChannelEndpointChanged">>},
        n \in 1..MaxFrames}

InitSerial ==
    /\ config \in {c \in LifeConfigs : c.inactivity_limit = MaxInactivityLimit}
    /\ mining_handler \in {h \in MiningServerHandlers :
                              h.success_flags = 0 /\ new(config, h).ok}
    /\ new_result = Some(new(config, mining_handler))
    /\ now = 0
    /\ clients = [client_id \in 1..MaxClients |-> new_client]
    /\ io = [client_id \in 1..MaxClients |-> new_io]
    /\ client_id_generator = MaxClients + 1
    /\ cancellation_token = FALSE
    /\ monitor = [pc |-> "sleep", clients_to_remove |-> {}, client_entries |-> {}]
    /\ acceptor = "running"
    /\ accepted = [k \in 1..MaxClients |-> k]
    /\ reader = [client_id \in 1..MaxClients |-> "loop"]
    /\ last_call = None
    /\ calls = <<>>
    /\ sibling_client_service_io = None
    /\ start = [pc |-> "running", result |-> None]
    /\ sibling_task = sibling_unspawned

\* a peer writes its next frame
SerialPeerSend ==
    \E client_id \in 1..MaxClients, frame \in SerialFrames :
        /\ frame.body = io[client_id].sent + 1
        /\ PeerSend(client_id, frame)

\* (mutant) the task goes back to recv_message without awaiting the call
at_recv_message_unawaited(client_id) == reader[client_id] \in {"loop", "call"}

\* the task is in its select, at io.recv_message()
at_recv_message(client_id) == reader[client_id] = "loop"

\* message handler task: recv_message yields Ok(message), service.call(request)
\* is entered
ReaderCall(client_id) ==
    /\ at_recv_message(client_id)
    /\ io[client_id].rx # <<>>
    /\ io' = [io EXCEPT ![client_id].rx = Tail(@)]
    /\ calls' = Append(calls,
                  [request |-> IncomingMessage(Head(io[client_id].rx), Some(client_id)),
                   result |-> None])
    /\ reader' = [reader EXCEPT ![client_id] = "call"]
    /\ UNCHANGED <<config, mining_handler, new_result, clients,
                   client_id_generator, cancellation_token, now, monitor,
                   acceptor, accepted, last_call, sibling_client_service_io,
                   start, sibling_task>>

\* message handler task: the future of service.call(request) completes, the
\* task is back in its select
ReaderCallReturn(client_id) ==
    /\ reader[client_id] = "call"
    /\ LET k == CHOOSE k \in DOMAIN calls :
                   /\ calls[k].request.client_id = Some(client_id)
                   /\ calls[k].result = None
           r == call(service, config, calls[k].request)
       IN /\ clients' = r.sv.clients
          /\ io' = r.sv.io
          /\ mining_handler' = r.sv.mining_handler
          /\ calls' = [calls EXCEPT ![k].result = Some(r.result)]
          /\ reader' = [reader EXCEPT ![client_id] =
                           IF r.result = Err("panic") THEN "panicked" ELSE "loop"]
    /\ UNCHANGED <<config, new_result, client_id_generator, cancellation_token,
                   now, monitor, acceptor, accepted, last_call,
                   sibling_client_service_io, start,
          sibling_task>>

NextSerial ==
    \/ SerialPeerSend
    \/ \E client_id \in 1..MaxClients : ReaderCall(client_id)
    \/ \E client_id \in 1..MaxClients : ReaderCallReturn(client_id)

SpecSerial == InitSerial /\ [][NextSerial]_vars

---------------------------------------------------------------------------
(* SpecSibling: the sibling-request task of start on a service built with  *)
(* new_with_sibling_io, the sibling client service that feeds it, and the  *)
(* owner of the cancellation token.                                        *)

\* the requests the sibling client service submits
SiblingRequests ==
    {SendMessagesToClient(client_id, <<Outbound(1)>>) : client_id \in 1..MaxClients}
        \cup (IF mining_handler.null THEN {}
              ELSE {MiningTrigger("on_new_template"),
                    MiningTrigger("on_set_new_prev_hash")})

InitSibling ==
    /\ config \in {c \in LifeConfigs : c.inactivity_limit = MaxInactivityLimit}
    /\ mining_handler \in {h \in CallHandlers :
                              new(config, h).ok /\ h.ready # "Pending"}
    /\ new_result = Some(new(config, mining_handler))
    /\ now = 0
    /\ clients = [client_id \in {1} |-> new_client]
    /\ io = [client_id \in 1..MaxClients |->
                IF client_id = 1 THEN new_io
                ELSE [new_io EXCEPT !.closed = TRUE, !.shutdowns = 1]]
    /\ client_id_generator = MaxClients + 1
    /\ cancellation_token = FALSE
    /\ monitor = [pc |-> "sleep", clients_to_remove |-> {}, client_entries |-> {}]
    /\ acceptor = "running"
    /\ accepted = [k \in 1..MaxClients |-> k]
    /\ reader = [client_id \in 1..MaxClients |->
                    IF client_id = 1 THEN "loop" ELSE "ended"]
    /\ last_call = None
    /\ calls = <<>>
    /\ sibling_client_service_io = Some(new_sibling_io)
    /\ start = [pc |-> "running", result |-> None]
    /\ sibling_task = [sibling_unspawned EXCEPT !.pc = "select"]

\* the sibling client service sends a request
SiblingClientSend ==
    \E req \in SiblingRequests :
        /\ ~sibling_client_service_io[1].closed
        /\ sibling_client_service_io[1].sent < MaxSiblingRequests
        /\ sibling_client_service_io' =
              Some([sibling_client_service_io[1] EXCEPT
                       !.rx = Append(@, [seq |-> sibling_client_service_io[1].sent + 1,
                                         req |-> req]),
                       !.sent = @ + 1])
        /\ UNCHANGED <<config, mining_handler, new_result, clients, io,
                       client_id_generator, cancellation_token, now, monitor,
                       acceptor, accepted, reader, last_call, calls, start,
                       sibling_task>>

\* the sibling client service goes away
SiblingClientClose ==
    /\ ~sibling_client_service_io[1].closed
    /\ sibling_client_service_io' =
          Some([sibling_client_service_io[1] EXCEPT !.closed = TRUE])
    /\ UNCHANGED <<config, mining_handler, new_result, clients, io,
                   client_id_generator, cancellation_token, now, monitor,
                   acceptor, accepted, reader, last_call, calls, start,
                   sibling_task>>

\* sibling task: sibling_io.recv() yields Ok(req)
SiblingRecv ==
    /\ sibling_task.pc = "select"
    /\ sibling_client_service_io[1].rx # <<>>
    /\ sibling_task' = [sibling_task EXCEPT
                           !.pc = "ready",
                           !.req = Some(Head(sibling_client_service_io[1].rx))]
    /\ sibling_client_service_io' =
          Some([sibling_client_service_io[1] EXCEPT !.rx = Tail(@)])
    /\ UNCHANGED <<config, mining_handler, new_result, clients, io,
                   client_id_generator, cancellation_token, now, monitor,
                   acceptor, accepted, reader, last_call, calls, start>>

\* sibling task: sibling_io.recv() yields Err(e), which is logged
SiblingRecvErr ==
    /\ sibling_task.pc = "select"
    /\ sibling_client_service_io[1].rx = <<>>
    /\ sibling_client_service_io[1].closed
    /\ sibling_task.recv_errors < MaxRecvErrors
    /\ sibling_task' = [sibling_task EXCEPT !.recv_errors = @ + 1]
    /\ UNCHANGED <<config, mining_handler, new_result, clients, io,
                   client_id_generator, cancellation_token, now, monitor,
                   acceptor, accepted, reader, last_call, calls,
                   sibling_client_service_io, start>>

\* (mutant) the request is dispatched whatever ready() returned
ready_unchecked(poll) == poll \in {"Ready(Ok)", "Ready(Err)"}

\* service.ready().await is Ok
ready_ok(poll) == poll = "Ready(Ok)"

\* sibling task: service.ready().await; when it fails the request is skipped
SiblingReady ==
    /\ sibling_task.pc = "ready"
    /\ LET r == poll_ready(mining_handler) IN
         /\ r.poll # "Pending"
         /\ mining_handler' = r.handler
         /\ sibling_task' = IF ready_ok(r.poll)
                            THEN [sibling_task EXCEPT !.pc = "call"]
                            ELSE [sibling_task EXCEPT !.pc = "select", !.req = None]
    /\ UNCHANGED <<config, new_result, clients, io, client_id_generator,
                   cancellation_token, now, monitor, acceptor, accepted, reader,
                   last_call, calls, sibling_client_service_io, start>>

\* sibling task: service.call(*req).await; an error is logged
SiblingCall ==
    /\ sibling_task.pc = "call"
    /\ LET r == call(service, config, sibling_task.req[1].req) IN
         /\ clients' = r.sv.clients
         /\ io' = r.sv.io
         /\ mining_handler' = r.sv.mining_handler
         /\ sibling_client_service_io' = r.sv.sibling_client_service_io
         /\ calls' = Append(calls, [seq |-> sibling_task.req[1].seq,
                                    request |-> sibling_task.req[1].req,
                                    result |-> r.result])
         /\ sibling_task' = [sibling_task EXCEPT
                                !.pc = IF r.result = Err("panic")
                                       THEN "panicked" ELSE "select",
                                !.req = None]
    /\ UNCHANGED <<config, new_result, client_id_generator, cancellation_token,
                   now, monitor, acceptor, accepted, reader, last_call, start>>

\* sibling task: the cancellation branch; the loop is left and
\* sibling_io.shutdown() is called
SiblingCancelled ==
    /\ sibling_task.pc = "select"
    /\ cancellation_token
    /\ sibling_task' = [sibling_task EXCEPT !.pc = "ended"]
    /\ sibling_client_service_io' =
          Some([sibling_client_service_io[1] EXCEPT !.closed = TRUE])
    /\ UNCHANGED <<config, mining_handler, new_result, clients, io,
                   client_id_generator, cancellation_token, now, monitor,
                   acceptor, accepted, reader, last_call, calls, start>>

NextSibling ==
    \/ SiblingClientSend
    \/ SiblingClientClose
    \/ SiblingRecv
    \/ SiblingRecvErr
    \/ SiblingReady
    \/ SiblingCall
    \/ SiblingCancelled
    \/ Cancel

\* the runtime keeps polling the task: a step of the task that stays possible
\* is taken
SiblingFairness ==
    /\ WF_vars(SiblingRecv)
    /\ WF_vars(SiblingReady)
    /\ WF_vars(SiblingCall)
    /\ WF_vars(SiblingCancelled)

SpecSibling == InitSibling /\ [][NextSibling]_vars /\ SiblingFairness

---------------------------------------------------------------------------
(* Claims on construction (SpecNew) *)

Constructed == new_result # None
\* the only handler slot of the service is the mining handler's
NonNullHandlerProvided(p) == p = "MiningProtocol" /\ ~mining_handler.null
ConfigPresent(p) ==
    CASE p = "MiningProtocol" -> config.mining_config # None
      [] p = "JobDeclarationProtocol" -> config.job_declaration_config # None
      [] p = "TemplateDistributionProtocol" -> config.template_distribution_config # None

FirstFailingCheck ==
    IF ~ReqProtocolOk THEN "unsupported-protocol"
    ELSE IF ~ReqVersionOk THEN "protocol-version-mismatch"
    ELSE IF ~ReqFlagsOk THEN "unsupported-feature-flags"
    ELSE "none"

\* C26: a SetupConnection from a registered client with an open connection is
\* answered with exactly one message, and that message is decided by the
\* first check that fails in the order protocol, version, flags: its
\* error_code is the one of that check, or it is SetupConnectionSuccess when
\* none fails; on a closed connection nothing is sent.
C26_CheckOrder ==
    SetupDone =>
        IF Reachable1
        THEN /\ Len(io[1].tx) = 1
             /\ IF FirstFailingCheck = "none"
                THEN io[1].tx[1].type = "SetupConnectionSuccess"
                ELSE /\ io[1].tx[1].type = "SetupConnectionError"
                     /\ io[1].tx[1].error_code = FirstFailingCheck
        ELSE io[1].tx = <<>>

\* C26 witness: a request failed the version check and the flag check and
\* was answered with the single error of the version check
C26_Witness ==
    /\ SetupDone /\ Reachable1
    /\ ReqProtocolOk /\ ~ReqVersionOk /\ ~ReqFlagsOk
    /\ Len(io[1].tx) = 1
    /\ io[1].tx[1].error_code = "protocol-version-mismatch"

\* a request failed the protocol check and the version check and was
\* answered with the error of the protocol check
C26_ProtocolFirst ==
    /\ SetupDone /\ Reachable1
    /\ ~ReqProtocolOk /\ ~ReqVersionOk
    /\ Len(io[1].tx) = 1
    /\ io[1].tx[1].error_code = "unsupported-protocol"

\* C31 (as claimed): on the unsupported-flags path add_client(client_id,
\* req.flags) is called on the handler of the requested protocol -- the
\* mining handler for a Mining request, no handler of this service for the
\* other protocols -- and the connection details stay absent.
C31_AsClaimed ==
    (SetupDone /\ ReqProtocolOk /\ ReqVersionOk /\ ~ReqFlagsOk) =>
        /\ clients[1].connection = None
        /\ mining_handler.log =
               IF SetupReq.protocol = "MiningProtocol"
               THEN << [method |-> "add_client", client_id |-> 1,
                        flags |-> SetupReq.flags] >>
               ELSE <<>>

\* C34 (as claimed): whenever SetupConnectionSuccess is sent by a server
\* whose own version range is well-formed, used_version lies in the range
\* the client requested and in the range the server supports, also for a
\* request with min_version > max_version.
C34_AsClaimed ==
    (/\ SetupDone /\ Reachable1
     /\ config.min_supported_version <= config.max_supported_version
     /\ io[1].tx # <<>>
     /\ io[1].tx[1].type = "SetupConnectionSuccess") =>
        /\ SetupReq.min_version <= io[1].tx[1].used_version
        /\ io[1].tx[1].used_version <= SetupReq.max_version
        /\ config.min_supported_version <= io[1].tx[1].used_version
        /\ io[1].tx[1].used_version <= config.max_supported_version

\* C35 (as claimed): a SetupConnection call that returns an error leaves the
\* service state as it was before the call: the client's connection details
\* are still absent and add_client has not been called on the handler.
C35_AsClaimed ==
    (SetupDone /\ ~SetupResult.ok) =>
        /\ clients[1].connection = None
        /\ AddClientCalls = {}

---------------------------------------------------------------------------
(* Claims on the lifecycle (Spec) *)

\* the step dispatches a frame of the client
Dispatched(client_id) ==
    /\ client_id \in DOMAIN io
    /\ io[client_id].rx # <<>>
    /\ io'[client_id].rx = Tail(io[client_id].rx)
\* the step takes the record out of the registry or shuts its IO down
Dropped(client_id) ==
    \/ client_id \notin DOMAIN clients'
    \/ io'[client_id].shutdowns > io[client_id].shutdowns
ErrorReplies(client_id) ==
    {k \in 1..Len(io[client_id].tx) :
        io[client_id].tx[k].type = "SetupConnectionError"}

Removed == DOMAIN io \ DOMAIN clients
RemoveClientCalls(client_id) ==
    Cardinality({k \in 1..Len(mining_handler.log) :
        mining_handler.log[k] =
            [method |-> "remove_client", client_id |-> client_id]})
MonitorAlive == monitor.pc \in {"sleep", "scan", "remove"}
Age(client_id) == now - clients[client_id].last_message_time

\* C5: for any sequence of N accepts the k-th accepted connection gets id k,
\* so the assigned ids are 1..N without repeats, also after removals.
C5_ClientIds ==
    \A k \in 1..Len(accepted) : accepted[k] = k

\* C5 witness: every accept within the bound has happened and the first
\* client has been removed while the second is registered
C5_Witness ==
    /\ Len(accepted) = MaxClients
    /\ 1 \in Removed
    /\ 2 \in DOMAIN clients

\* C6 (as claimed): the connection details of a client record are written at
\* most once, whatever frames the peer sends.
C6_AsClaimed ==
    \A client_id \in DOMAIN clients : clients[client_id].writes <= 1

\* C7 (as claimed): once a client is removed its IO has been shut down
\* exactly once and the non-null handler's remove_client has been called
\* exactly once for its id.
C7_AsClaimed ==
    \A client_id \in Removed :
        /\ io[client_id].shutdowns = 1
        /\ ~mining_handler.null => RemoveClientCalls(client_id) = 1

\* C8: while the monitor keeps ticking, no registered client is older than
\* inactivity_limit + 1 seconds since its last inbound message, and once the
\* monitor has finished a tick none is older than inactivity_limit.
C8_InactivityBound ==
    MonitorAlive =>
        \A client_id \in DOMAIN clients :
            /\ Age(client_id) <= config.inactivity_limit + 1
            /\ monitor.pc = "sleep" => Age(client_id) <= config.inactivity_limit

\* C8 witness: with the largest inactivity limit the monitor removed a silent
\* client (its reader task has not left its loop and nothing was cancelled)
\* one tick after the limit
C8_Witness ==
    /\ config.inactivity_limit = MaxInactivityLimit
    /\ monitor.pc = "sleep"
    /\ ~cancellation_token
    /\ now = MaxInactivityLimit + 1
    /\ \E client_id \in Removed :
          /\ reader[client_id] = "loop"
          /\ io[client_id].shutdowns = 1
          /\ io[client_id].sent = 0

\* every task of start has observed the cancellation and ended
Quiescent ==
    /\ cancellation_token
    /\ acceptor = "ended"
    /\ monitor.pc = "ended"
    /\ \A client_id \in DOMAIN reader : reader[client_id] = "ended"

\* C12 (as claimed): once the cancellation has fired and every task has run to
\* its end, the registry is empty and the IO of every accepted client is
\* closed, also when an accept raced with the cancellation.
C12_AsClaimed ==
    Quiescent =>
        /\ DOMAIN clients = {}
        /\ \A client_id \in DOMAIN io : io[client_id].closed

ReaderLeft(client_id) ==
    client_id \in DOMAIN reader /\ reader[client_id] \in {"remove", "ended"}
IoClosed(client_id) ==
    client_id \in DOMAIN io /\ io[client_id].closed
ClosedForGood(client_id) ==
    /\ client_id \in DOMAIN reader
    /\ reader[client_id] = "ended"
    /\ client_id \notin DOMAIN clients

\* C22: once the IO of a client is closed its message handler task removes
\* the record and ends; from the moment the task has left its loop no frame
\* is dispatched for the client, and once the task has ended the id is never
\* in the registry again.
C22_ClosedForGood ==
    /\ \A client_id \in 1..MaxClients :
          IoClosed(client_id) ~> ClosedForGood(client_id)
    /\ [][\A client_id \in DOMAIN reader :
            /\ ReaderLeft(client_id) =>
                   /\ ReaderLeft(client_id)'
                   /\ ~Dispatched(client_id)
            /\ reader[client_id] = "remove" /\ reader'[client_id] = "ended" =>
                   client_id \notin DOMAIN clients'
            /\ ClosedForGood(client_id) => ClosedForGood(client_id)'
         ]_vars

\* C22 witness: the peer of the first client closed its connection, the task
\* removed the record and ended, and a second client has been accepted since
C22_Witness ==
    /\ ClosedForGood(1)
    /\ ~cancellation_token
    /\ io[1].shutdowns = 1
    /\ now = 0
    /\ 2 \in DOMAIN clients

get_client_count == Cardinality(DOMAIN clients)
Handshaken(client_id) ==
    client_id \in DOMAIN clients /\ clients[client_id].connection # None

\* C23: an accept inserts a record under a fresh id, with absent connection
\* details and no frame dispatched yet; details appear only by the dispatch
\* of a frame of that client; get_client_count is the number of accepted
\* connections minus the number of removed ones.
C23_Registry ==
    /\ [](get_client_count = Len(accepted) - Cardinality(Removed))
    /\ [][/\ Len(accepted') > Len(accepted) =>
               LET client_id == accepted'[Len(accepted')] IN
               /\ client_id \notin DOMAIN io
               /\ client_id \in DOMAIN clients'
               /\ clients'[client_id].connection = None
               /\ io'[client_id].rx = <<>> /\ io'[client_id].sent = 0
               /\ get_client_count' = get_client_count + 1
          /\ \A client_id \in DOMAIN clients' :
               Handshaken(client_id)' /\ ~Handshaken(client_id) =>
                   Dispatched(client_id)
          /\ \A client_id \in DOMAIN io :
               Dispatched(client_id) =>
                   \E k \in 1..Len(accepted) : accepted[k] = client_id
         ]_vars

\* C23 witness: two clients have completed the handshake and both are in the
\* registry
C23_Witness ==
    /\ Handshaken(1) /\ Handshaken(2)
    /\ get_client_count = 2
    /\ \A client_id \in {1, 2} :
          \E k \in 1..Len(io[client_id].tx) :
              io[client_id].tx[k].type = "SetupConnectionSuccess"

---------------------------------------------------------------------------
(* Claims on sending (SpecSend) *)

\* the messages appear in the sequence tx in list order as one block
Contiguous(messages, tx) ==
    \E offset \in 0..(Len(tx) - Len(messages)) :
        \A i \in 1..Len(messages) : tx[offset + i] = messages[i]

\* C9 (as claimed): when SendMessagesToClient returns Ok, the peer has
\* received the messages of the call in list order and contiguously, with no
\* frame of a concurrent call for the same client in between.
C9_AsClaimed ==
    \A k \in DOMAIN calls :
        calls[k].result = Some(Ok(ResponseOk)) =>
            Contiguous(calls[k].request.messages,
                       io[calls[k].request.client_id].tx)

\* the messages of call k the client's channel has accepted, in channel order
SentBy(k) ==
    SelectSeq(io[calls[k].request.client_id].tx, LAMBDA m : m.body[1] = k)
SendDone(k) == calls[k].pc = "done"
SendFailed(k) ==
    calls[k].result = Some([ok |-> FALSE, error |-> "FailedToSendResponseToClient"])

\* C28: a SendMessagesToClient for an id that is not in the registry returns
\* FailedToSendResponseToClient at once and sends nothing; a call that has
\* returned without all its messages sent has returned
\* FailedToSendResponseToClient; what a failed call has sent is m1..m(i-1)
\* for the mi whose send failed, and nothing of it is sent afterwards.
C28_FirstFailureAborts ==
    /\ [](\A k \in DOMAIN calls :
            LET messages == calls[k].request.messages IN
            /\ \E i \in 0..Len(messages) : SentBy(k) = SubSeq(messages, 1, i)
            /\ SendDone(k) /\ SentBy(k) # messages => SendFailed(k)
            /\ SendFailed(k) => SendDone(k) /\ SentBy(k) # messages)
    /\ [][/\ \A k \in DOMAIN calls : SendDone(k) => SentBy(k)' = SentBy(k)
          /\ Len(calls') > Len(calls) =>
               \A k \in DOMAIN calls' \ DOMAIN calls :
                   calls'[k].request.client_id \notin DOMAIN clients =>
                       /\ SendDone(k)' /\ SendFailed(k)'
                       /\ io' = io
         ]_vars

\* C28 witness: the second message of a batch could not be sent: the call
\* failed with the first message delivered
C28_Witness ==
    \E k \in DOMAIN calls :
        /\ Len(calls[k].request.messages) = 2
        /\ SendFailed(k)
        /\ SentBy(k) = <<calls[k].request.messages[1]>>

\* a call for a client that is no longer in the registry failed
C28_NotInRegistry ==
    \E k \in DOMAIN calls :
        /\ SendFailed(k)
        /\ calls[k].remaining = calls[k].request.messages
        /\ calls[k].request.client_id \notin DOMAIN clients
        /\ SentBy(k) = <<>>

---------------------------------------------------------------------------
(* Claims on the dispatcher (SpecCall) *)

CallDone == last_call # None
CallRequest == last_call[1].request
CallResult == last_call[1].result
CallBefore == last_call[1].before

\* r1 .. rn submitted one after the other, each on the state the previous one
\* left, up to and including the first that fails
RECURSIVE Sequentially(_, _)
Sequentially(sv, reqs) ==
    IF reqs = <<>>
    THEN [sv |-> sv, result |-> Ok(ResponseOk), attempted |-> 0]
    ELSE LET r == call(sv, config, Head(reqs)) IN
         IF ~r.result.ok
         THEN [sv |-> r.sv, result |-> r.result, attempted |-> 1]
         ELSE LET rest == Sequentially(r.sv, Tail(reqs))
              IN [rest EXCEPT !.attempted = @ + 1]

\* C11: MultipleRequests([r1..rn]) leaves the service in the state that
\* submitting r1, r2, ... one after the other leaves it in, stops at the first
\* ri that fails and returns ri's error, and returns Ok when none fails.
C11_MultipleRequests ==
    (CallDone /\ CallRequest.kind = "MultipleRequests") =>
        LET seq == Sequentially(CallBefore, CallRequest.reqs)
        IN /\ service = seq.sv
           /\ CallResult = seq.result
           /\ seq.attempted = Len(CallRequest.reqs) /\ seq.result.ok
                 => CallResult = Ok(ResponseOk)

\* C11 witness: the first of two requests failed (its client is not in the
\* registry) and the second, a send to a registered client with an open
\* channel, was not attempted
C11_Witness ==
    /\ CallDone
    /\ CallRequest = MultipleRequests(<<SendMessagesToClient(2, <<Outbound(2)>>),
                                        SendMessagesToClient(1, <<Outbound(1)>>)>>)
    /\ ~CallBefore.io[1].closed
    /\ CallResult = Err("FailedToSendResponseToClient")
    /\ io[1].tx = <<>>

\* the last call dispatched a frame of client 1
CallIncoming == CallDone /\ CallRequest.kind = "IncomingMessage"
IsSetupConnection(message) ==
    message.class = "Common" /\ message.type = "SetupConnection"

\* C14 (as claimed): a frame other than SetupConnection from a client whose
\* connection details are absent is rejected with UnsupportedMessage and no
\* method of the mining handler is called for it.
C14_AsClaimed ==
    (/\ CallIncoming
     /\ CallRequest.client_id = Some(1)
     /\ CallBefore.clients[1].connection = None
     /\ ~IsSetupConnection(CallRequest.message)) =>
        /\ CallResult = Err("UnsupportedMessage")
        /\ mining_handler.log = CallBefore.mining_handler.log

\* C15 (as claimed): no method of the null mining handler is ever invoked,
\* whatever request is dispatched and whenever readiness is polled.
C15_AsClaimed ==
    mining_handler.null => mining_handler.log = <<>>

\* C16: with the null mining handler, an IncomingMessage that carries a Mining
\* message returns UnsupportedProtocol { MiningProtocol } whatever the variant
\* and the client id; nothing is sent to any client and no handler is called.
C16_NullMiningHandler ==
    (/\ CallIncoming
     /\ CallRequest.message.class = "Mining"
     /\ CallBefore.mining_handler.null) =>
        /\ CallResult = [ok |-> FALSE, error |-> "UnsupportedProtocol(MiningProtocol)"]
        /\ \A client_id \in DOMAIN io : io[client_id].tx = CallBefore.io[client_id].tx
        /\ mining_handler = CallBefore.mining_handler

\* C16 witness: a Mining variant the server never accepts, with no client id,
\* was answered UnsupportedProtocol by a service with the null handler
C16_Witness ==
    /\ CallIncoming
    /\ CallRequest.message.class = "Mining"
    /\ CallRequest.message.type = "NewMiningJob"
    /\ CallRequest.client_id = None
    /\ CallBefore.mining_handler.null
    /\ ~CallResult.ok
    /\ CallResult.error = "UnsupportedProtocol(MiningProtocol)"

\* the Sv2MiningServerHandler method named after each client-to-server variant
SameNamedMethod ==
    [OpenStandardMiningChannel |-> "handle_open_standard_mining_channel",
     OpenExtendedMiningChannel |-> "handle_open_extended_mining_channel",
     UpdateChannel |-> "handle_update_channel",
     SubmitSharesStandard |-> "handle_submit_shares_standard",
     SubmitSharesExtended |-> "handle_submit_shares_extended",
     SetCustomMiningJob |-> "handle_set_custom_mining_job",
     CloseChannel |-> "handle_close_channel"]
ClientToServer == DOMAIN SameNamedMethod
MiningIncoming ==
    /\ CallIncoming
    /\ CallRequest.message.class = "Mining"
    /\ ~CallBefore.mining_handler.null
    /\ CallRequest.client_id # None

\* C27: with a non-null mining handler, a client-to-server Mining variant
\* calls the handler method of the same name exactly once, with the sender's
\* client id, and nothing else on the handler; a server-to-client variant
\* calls no handler method and returns UnsupportedMessage.
C27_MiningRouting ==
    MiningIncoming =>
        LET type == CallRequest.message.type IN
        IF type \in ClientToServer
        THEN mining_handler.log =
                 Append(CallBefore.mining_handler.log,
                        [method |-> SameNamedMethod[type],
                         client_id |-> CallRequest.client_id[1]])
        ELSE /\ mining_handler.log = CallBefore.mining_handler.log
             /\ CallResult = [ok |-> FALSE, error |-> "UnsupportedMessage"]

\* C27 witness: SubmitSharesExtended from client 1 reached
\* handle_submit_shares_extended
C27_Witness ==
    /\ MiningIncoming
    /\ CallRequest.message.type = "SubmitSharesExtended"
    /\ CallRequest.client_id = Some(1)
    /\ Len(mining_handler.log) = 1
    /\ mining_handler.log[1].method = "handle_submit_shares_extended"
    /\ CallResult.ok

\* a server-to-client variant was rejected by a service with a non-null handler
C27_ServerToClient ==
    /\ MiningIncoming
    /\ CallRequest.message.type = "SetTarget"
    /\ ~CallResult.ok /\ CallResult.error = "UnsupportedMessage"

SentToClients ==
    CallDone /\ CallRequest.kind = "SendMessagesToClients"
\* the entry cannot be delivered: its client is not in the registry or the
\* client's channel is closed
Undeliverable(entry) ==
    \/ entry.client_id \notin DOMAIN CallBefore.clients
    \/ CallBefore.io[entry.client_id].closed
\* the number of entries before the first that cannot be delivered
DeliveredEntries ==
    LET list == CallRequest.messages_to_clients
        failing == {i \in 1..Len(list) : Undeliverable(list[i])}
    IN IF failing = {} THEN Len(list)
       ELSE (CHOOSE i \in failing : \A j \in failing : i <= j) - 1
\* the messages of the first n entries addressed to the client, in list order
RECURSIVE MessagesFor(_, _, _)
MessagesFor(list, n, client_id) ==
    IF n = 0 THEN <<>>
    ELSE MessagesFor(list, n - 1, client_id) \o
             (IF list[n].client_id = client_id THEN list[n].messages ELSE <<>>)

\* C29: SendMessagesToClients delivers the entries in list order, each
\* entry's messages in order, up to the first entry that cannot be
\* delivered; it then returns FailedToSendResponseToClient, the later entries
\* receive nothing and the earlier deliveries stay; with no such entry it
\* returns Ok.
C29_EntriesInOrder ==
    SentToClients =>
        LET list == CallRequest.messages_to_clients IN
        /\ CallResult = IF DeliveredEntries = Len(list)
                        THEN [ok |-> TRUE, response |-> [kind |-> "Ok"]]
                        ELSE [ok |-> FALSE, error |-> "FailedToSendResponseToClient"]
        /\ \A client_id \in DOMAIN io :
              io[client_id].tx =
                  CallBefore.io[client_id].tx \o
                      MessagesFor(list, DeliveredEntries, client_id)
        /\ clients = CallBefore.clients

\* C29 witness: the first entry was delivered to client 1, the second entry
\* named a client that is not in the registry, and the call failed with the
\* first delivery in place
C29_Witness ==
    /\ SentToClients
    /\ Len(CallRequest.messages_to_clients) = 2
    /\ CallRequest.messages_to_clients[1].client_id = 1
    /\ CallRequest.messages_to_clients[2].client_id = 2
    /\ CallResult = [ok |-> FALSE, error |-> "FailedToSendResponseToClient"]
    /\ io[1].tx = CallRequest.messages_to_clients[1].messages
    /\ Len(io[1].tx) = 2

\* the first entry failed and the second, deliverable, received nothing
C29_LaterEntrySkipped ==
    /\ SentToClients
    /\ Len(CallRequest.messages_to_clients) = 2
    /\ CallRequest.messages_to_clients[1].client_id = 2
    /\ CallRequest.messages_to_clients[2].client_id = 1
    /\ ~CallBefore.io[1].closed
    /\ ~CallResult.ok
    /\ io[1].tx = <<>>

\* a SetupConnection that passes the protocol, version and flag checks, from
\* an id that is not in the registry
VanishedSetup ==
    /\ CallIncoming
    /\ IsSetupConnection(CallRequest.message)
    /\ CallRequest.client_id # None
    /\ CallRequest.client_id[1] \notin DOMAIN CallBefore.clients
    /\ LET req == CallRequest.message.body
           protocol_cfg ==
               CASE req.protocol = "MiningProtocol" -> config.mining_config
                 [] req.protocol = "JobDeclarationProtocol" ->
                        config.job_declaration_config
                 [] req.protocol = "TemplateDistributionProtocol" ->
                        config.template_distribution_config
       IN /\ protocol_cfg # None
          /\ req.max_version >= config.min_supported_version
          /\ req.min_version <= config.max_supported_version
          /\ Bits(req.flags) \subseteq Bits(protocol_cfg[1].supported_flags)

\* C30: a SetupConnection that passes the three checks for an id whose
\* record is not in the registry fails with IdNotFound; no handler method is
\* called, no message is sent and no record is created.
C30_IdNotFound ==
    VanishedSetup =>
        /\ CallResult = [ok |-> FALSE, error |-> "IdNotFound"]
        /\ mining_handler = CallBefore.mining_handler
        /\ io = CallBefore.io
        /\ clients = CallBefore.clients

\* C30 witness: a Mining SetupConnection for the removed client 2 failed with
\* IdNotFound on a service with a non-null mining handler
C30_Witness ==
    /\ VanishedSetup
    /\ CallRequest.client_id = Some(2)
    /\ CallRequest.message.body.protocol = "MiningProtocol"
    /\ ~mining_handler.null
    /\ mining_handler.log = <<>>
    /\ ~CallResult.ok /\ CallResult.error = "IdNotFound"

Polled == CallDone /\ CallRequest.kind = "poll_ready"
PollReadyCalls ==
    Cardinality({k \in 1..Len(mining_handler.log) :
        mining_handler.log[k] = [method |-> "poll_ready"]})

\* C17: poll_ready answers ready exactly when the mining handler is null or
\* reports ready; the null handler is not polled; a pending non-null handler
\* gives pending and a readiness error of the handler is returned.
C17_PollReady ==
    Polled =>
        LET handler == CallBefore.mining_handler IN
        /\ CallResult = "Ready(Ok)" <=> (handler.null \/ handler.ready = "Ready(Ok)")
        /\ handler.null => PollReadyCalls = 0
        /\ ~handler.null => PollReadyCalls = 1
        /\ (~handler.null /\ handler.ready = "Pending") => CallResult = "Pending"
        /\ (~handler.null /\ handler.ready = "Ready(Err)") => CallResult = "Ready(Err)"

\* C17 witness: the dispatcher was pending because its non-null handler was
C17_Witness ==
    /\ Polled
    /\ ~CallBefore.mining_handler.null
    /\ CallBefore.mining_handler.ready = "Pending"
    /\ CallResult = "Pending"
    /\ PollReadyCalls = 1

Forwarded ==
    CallDone /\ CallRequest.kind = "SendRequestToSiblingClientService"

\* C19: SendRequestToSiblingClientService(req) on a service with sibling IO
\* enqueues req and returns Ok, or returns
\* FailedToSendRequestToSiblingClientService when the channel is full or
\* closed and enqueues nothing; without sibling IO it returns
\* NoSiblingClientService and forwards nothing.
C19_SiblingForward ==
    Forwarded =>
        LET sibling == CallBefore.sibling_client_service_io IN
        IF sibling = None
        THEN /\ CallResult = [ok |-> FALSE, error |-> "NoSiblingClientService"]
             /\ sibling_client_service_io = None
        ELSE IF sibling[1].closed \/ Len(sibling[1].queue) >= MaxSiblingQueue
        THEN /\ CallResult = [ok |-> FALSE,
                              error |-> "FailedToSendRequestToSiblingClientService"]
             /\ sibling_client_service_io = sibling
        ELSE /\ CallResult = [ok |-> TRUE, response |-> [kind |-> "Ok"]]
             /\ sibling_client_service_io[1].queue =
                    Append(sibling[1].queue, CallRequest.req)

\* C19 witness: the forward failed on a full channel
C19_Witness ==
    /\ Forwarded
    /\ CallBefore.sibling_client_service_io # None
    /\ ~CallBefore.sibling_client_service_io[1].closed
    /\ Len(CallBefore.sibling_client_service_io[1].queue) = MaxSiblingQueue
    /\ ~CallResult.ok
    /\ CallResult.error = "FailedToSendRequestToSiblingClientService"

\* the answer the request's own arm gave, before any chaining
FirstResponse ==
    response(IF CallRequest.kind = "IncomingMessage" /\ CallRequest.client_id # None
             THEN update_client_message_time(CallBefore, CallRequest.client_id[1])
             ELSE CallBefore,
             config, CallRequest)
Triggered ==
    /\ CallDone
    /\ CallRequest.kind # "poll_ready"
    /\ FirstResponse.result.ok
    /\ FirstResponse.result.response.kind = "TriggerNewRequest"
TriggeredRequest == FirstResponse.result.response.req

\* C20: when a handler or the negotiator answers TriggerNewRequest(r), r is
\* dispatched on the state the answer left and is complete when the outer
\* call returns; the outer call returns r's result, never the
\* TriggerNewRequest itself, so a SetupConnection whose reply cannot be sent
\* returns the send's error.
C20_TriggerNewRequest ==
    /\ CallDone /\ CallRequest.kind # "poll_ready" =>
           ~(CallResult.ok /\ CallResult.response.kind = "TriggerNewRequest")
    /\ Triggered =>
           LET r == response(FirstResponse.sv, config, TriggeredRequest) IN
           /\ CallResult = r.result
           /\ service = r.sv
    /\ Triggered /\ TriggeredRequest.kind = "SendMessagesToClient" =>
           LET client_id == TriggeredRequest.client_id IN
           IF client_id \in DOMAIN CallBefore.clients /\ ~CallBefore.io[client_id].closed
           THEN /\ CallResult = [ok |-> TRUE, response |-> [kind |-> "Ok"]]
                /\ io[client_id].tx =
                       CallBefore.io[client_id].tx \o TriggeredRequest.messages
           ELSE /\ CallResult = [ok |-> FALSE, error |-> "FailedToSendResponseToClient"]
                /\ io = CallBefore.io

\* C20 witness: a SetupConnection was answered with a reply to send, the
\* connection was closed, and the call returned the send's error
C20_Witness ==
    /\ Triggered
    /\ CallRequest.kind = "IncomingMessage"
    /\ CallRequest.message.type = "SetupConnection"
    /\ CallBefore.io[CallRequest.client_id[1]].closed
    /\ CallResult = [ok |-> FALSE, error |-> "FailedToSendResponseToClient"]

\* a mining handler's TriggerNewRequest was carried out before the call returned
C20_HandlerTriggered ==
    /\ Triggered
    /\ CallRequest.kind = "MiningTrigger"
    /\ CallResult.ok
    /\ Len(io[1].tx) = Len(CallBefore.io[1].tx) + 1

---------------------------------------------------------------------------
(* Claims on the life of one connection (SpecReap) *)

\* C21: a record leaves the registry (or has its IO shut down) only when its
\* IO is closed, when the monitor's scan found the inactivity limit elapsed
\* since its last message, or when the cancellation has fired; the dispatch
\* of a frame -- a rejected SetupConnection, an unsupported message, a reply
\* that cannot be sent -- neither removes a record nor shuts an IO down.
C21_RemovalCauses ==
    [][/\ \A client_id \in DOMAIN clients :
            /\ Dropped(client_id) =>
                   \/ io[client_id].closed
                   \/ cancellation_token
                   \/ /\ monitor.pc = "remove"
                      /\ client_id \in monitor.clients_to_remove
            /\ Dispatched(client_id) =>
                   /\ DOMAIN clients' = DOMAIN clients
                   /\ io'[client_id].shutdowns = io[client_id].shutdowns
                   /\ io'[client_id].closed = io[client_id].closed
       /\ \A client_id \in monitor'.clients_to_remove \ monitor.clients_to_remove :
            /\ client_id \in DOMAIN clients
            /\ now - clients[client_id].last_message_time > config.inactivity_limit
      ]_vars

\* C21 witness: the client was answered SetupConnectionError, stayed
\* registered, and was then removed by the monitor (nothing was cancelled, the
\* peer's reader task is still in its loop)
C21_Witness ==
    /\ ErrorReplies(1) # {}
    /\ 1 \notin DOMAIN clients
    /\ io[1].shutdowns = 1
    /\ ~cancellation_token
    /\ reader[1] = "loop"
    /\ monitor.pc = "sleep"

\* C25: the dispatch of a frame of a registered client sets the client's
\* last-message time to the current time, whatever the outcome of the
\* dispatch; the dispatch of a frame for an id that is not in the registry
\* leaves the registry as it is; no step moves a timestamp backwards.
C25_MessageTime ==
    [][\A client_id \in DOMAIN io :
          /\ Dispatched(client_id) /\ client_id \in DOMAIN clients =>
                 /\ client_id \in DOMAIN clients'
                 /\ clients'[client_id].last_message_time = now
          /\ Dispatched(client_id) /\ client_id \notin DOMAIN clients =>
                 clients' = clients
          /\ client_id \in DOMAIN clients /\ client_id \in DOMAIN clients' =>
                 clients'[client_id].last_message_time >=
                     clients[client_id].last_message_time
      ]_vars

\* C25 witness: with the null mining handler a frame was dispatched after
\* the first second and drew no reply -- the dispatch failed -- and the
\* client's timestamp is that of the frame
C25_Witness ==
    /\ mining_handler.null
    /\ 1 \in DOMAIN clients
    /\ clients[1].last_message_time >= 1
    /\ clients[1].connection = None
    /\ io[1].tx = <<>>
    /\ ~io[1].closed

\* a frame is waiting for a client that is no longer in the registry
C25_Unregistered ==
    /\ 1 \notin DOMAIN clients
    /\ reader[1] = "loop"
    /\ io[1].rx # <<>>

\* the step is the monitor's remove_client for the client
ReapedByMonitor(client_id) ==
    /\ monitor.pc = "remove"
    /\ client_id \in monitor.clients_to_remove
    /\ client_id \notin monitor'.clients_to_remove
    /\ client_id \in DOMAIN clients
    /\ client_id \notin DOMAIN clients'

\* C32 (as claimed): a client the monitor removes is inactive at the moment
\* of the removal: its last inbound message is older than the inactivity
\* limit, also when a frame arrived between the scan and the removal.
C32_AsClaimed ==
    [][\A client_id \in DOMAIN clients :
          ReapedByMonitor(client_id) =>
              now - clients[client_id].last_message_time > config.inactivity_limit
      ]_vars

---------------------------------------------------------------------------
(* Claims on the serialisation of inbound frames (SpecSerial) *)

\* the dispatches of the client's frames, in the order they were entered
DispatchesOf(client_id) ==
    SelectSeq(calls, LAMBDA c : c.request.client_id = Some(client_id))
InFlight(client_id) ==
    {k \in DOMAIN calls :
        /\ calls[k].request.client_id = Some(client_id)
        /\ calls[k].result = None}

\* C24: at most one dispatch per client is in flight, and the n-th dispatch
\* of a client is that of the n-th frame its peer sent.
C24_Serialised ==
    \A client_id \in 1..MaxClients :
        /\ Cardinality(InFlight(client_id)) <= 1
        /\ \A n \in 1..Len(DispatchesOf(client_id)) :
              /\ DispatchesOf(client_id)[n].request.message.body = n
              /\ n < Len(DispatchesOf(client_id)) =>
                     DispatchesOf(client_id)[n].result # None

\* C24 witness: the two frames of one client have been dispatched one after
\* the other
C24_Witness ==
    /\ Len(DispatchesOf(1)) = MaxFrames
    /\ InFlight(1) = {}

\* frames of different clients are in flight at the same time
C24_Concurrent ==
    /\ InFlight(1) # {}
    /\ InFlight(2) # {}

---------------------------------------------------------------------------
(* Claims on the sibling-request task (SpecSibling) *)

SiblingIo == sibling_client_service_io[1]
ServiceReady == mining_handler.null \/ mining_handler.ready = "Ready(Ok)"

C33_RecvFailed ==
    /\ sibling_task.recv_errors > 0
    /\ sibling_task.pc = "select"
    /\ ~cancellation_token

---------------------------------------------------------------------------
(* Claims on the message handler task (SpecReader) *)

\* C18 (as claimed): whatever frames the peer sends, its message handler task
\* does not die on one of them: each dispatch succeeds or yields an error that
\* is logged, and the task stays in its loop for the next frame.
C18_AsClaimed ==
    \A client_id \in DOMAIN reader : reader[client_id] # "panicked"

---------------------------------------------------------------------------
(* Claims on start (SpecStart) *)

Returned == start.pc = "returned"

\* C13 (as claimed): start has not returned, with Ok or with an error, while
\* the cancellation signal has not fired.
C13_AsClaimed == Returned => cancellation_token

\* C13 (amended): start returns Ok only once the cancellation signal has
\* fired; before that it returns only one of the start-up errors
\* TcpServerError, ServiceNotReady and FailedToStartMiningHandler.
C13_StartReturn ==
    Returned =>
        /\ start.result[1].ok => cancellation_token
        /\ ~start.result[1].ok =>
              start.result[1].error \in
                  {"TcpServerError", "ServiceNotReady", "FailedToStartMiningHandler"}

\* C13 witness: start has returned Ok after the mining handler was started
C13_Witness ==
    /\ Returned
    /\ start.result = Some(Ok("unit"))
    /\ \E k \in 1..Len(mining_handler.log) : mining_handler.log[k] = [method |-> "start"]

StartCalls == {i \in DOMAIN mining_handler.log : mining_handler.log[i].method = "start"}

\* C37 (as claimed): with a non-null mining handler, start() is called on the
\* handler at most once in a run of Sv2ServerService::start, exactly once
\* when the run gets past the trigger, and none of add_client, remove_client,
\* handle_*, on_new_template and on_set_new_prev_hash is called before it,
\* also when clients connect while the service is starting.
C37_AsClaimed ==
    ~has_null_handler(mining_handler, "MiningProtocol") =>
        /\ Cardinality(StartCalls) <= 1
        /\ start.pc = "await" => Cardinality(StartCalls) = 1
        /\ \A i \in DOMAIN mining_handler.log :
              mining_handler.log[i].method \notin {"start", "poll_ready"} =>
                  \E j \in StartCalls : j < i

---------------------------------------------------------------------------
(* Claims on the monitor's removal racing a dispatch (SpecRace) *)

HandlerCalls(method, client_id) ==
    {i \in DOMAIN mining_handler.log :
        /\ mining_handler.log[i].method = method
        /\ mining_handler.log[i].client_id = client_id}

\* C36 (as claimed): for every client id, no add_client(id) on the mining
\* handler comes after a remove_client(id), whatever the interleaving of the
\* SetupConnection dispatch with the monitor, the peer's close and the
\* cancellation.
C36_AsClaimed ==
    \A client_id \in 1..MaxClients :
        \A i \in HandlerCalls("remove_client", client_id) :
            \A j \in HandlerCalls("add_client", client_id) : j < i

\* C38 (as claimed): add_client(id, flags) is called on the mining handler
\* only in the dispatch of a SetupConnection of client id that requests
\* MiningProtocol, and every remove_client(id) on the mining handler comes
\* after an add_client(id).
C38_AsClaimed ==
    [][\A k \in DOMAIN mining_handler'.log \ DOMAIN mining_handler.log :
          LET entry == mining_handler'.log[k] IN
          /\ entry.method = "add_client" =>
                /\ Dispatched(entry.client_id)
                /\ Head(io[entry.client_id].rx).type = "SetupConnection"
                /\ Head(io[entry.client_id].rx).body.protocol = "MiningProtocol"
          /\ entry.method = "remove_client" =>
                HandlerCalls("add_client", entry.client_id) # {}
      ]_vars

====
